---- MODULE Spec2Model ----
(***************************************************************************)
(* Model of the client-side document pipeline of the driver-registration   *)
(* wizard: lib/security/watermark (processDocument, applyWatermark,        *)
(* applyPdfWatermark, applyInvisibleWatermark, dataUrlToBlob, the codec     *)
(* helpers) and the submit flow of SecureAgentRegistrationModal            *)
(* (handleDocumentsSubmit) with the file selection of StepDocumentUpload.   *)
(*                                                                         *)
(* Strings are sequences of UTF-16 code units (naturals), byte buffers are *)
(* sequences of 0..255, so that every conversion is computed.              *)
(*                                                                         *)
(* Three specifications share the module:                                  *)
(*   SpecEmbed  applyInvisibleWatermark on a canvas and a metadata object   *)
(*   SpecProc   processDocument on one file with arbitrary options          *)
(*   Spec       the wizard's documents step and its submission              *)
(***************************************************************************)
EXTENDS Integers, Sequences, FiniteSets, TLC

(***************************************************************************)
(* Bounds of the model.                                                    *)
(***************************************************************************)
\* canvases of SpecEmbed are up to 10*MaxTenths pixels wide and high
MaxTenths == 5
\* rasters inside the image files of SpecProc are 10*k pixels, k <= FileTenths
FileTenths == 1
\* number of submissions the user starts in one run of Spec
MaxSubmissions == 1
\* number of times the user picks or removes a file in one run of Spec
MaxPicks == 4

(***************************************************************************)
(* String constants of the source, as code units.                          *)
(***************************************************************************)
\* "image/jpeg"
MimeJpeg ==
    <<105, 109, 97, 103, 101, 47, 106, 112, 101, 103>>
\* "image/png"
MimePng ==
    <<105, 109, 97, 103, 101, 47, 112, 110, 103>>
\* "image/jpg"
MimeJpg ==
    <<105, 109, 97, 103, 101, 47, 106, 112, 103>>
\* "application/pdf"
MimePdf ==
    <<97, 112, 112, 108, 105, 99, 97, 116, 105, 111, 110, 47, 112, 100, 102>>
\* "text/plain", a media type the pipeline does not support
MimeText ==
    <<116, 101, 120, 116, 47, 112, 108, 97, 105, 110>>
\* "application/octet-stream"
MimeOctet ==
    <<97, 112, 112, 108, 105, 99, 97, 116, 105, 111, 110, 47, 111, 99, 116, 101, 116, 45,
      115, 116, 114, 101, 97, 109>>
\* "data:application/pdf;base64,"
DataUrlPdfPrefix ==
    <<100, 97, 116, 97, 58, 97, 112, 112, 108, 105, 99, 97, 116, 105, 111, 110, 47, 112,
      100, 102, 59, 98, 97, 115, 101, 54, 52, 44>>
\* "data:"
StrData ==
    <<100, 97, 116, 97, 58>>
\* ";base64,"
StrBase64Comma ==
    <<59, 98, 97, 115, 101, 54, 52, 44>>
\* "sessionId"
KeySessionId ==
    <<115, 101, 115, 115, 105, 111, 110, 73, 100>>
\* "emailHash"
KeyEmailHash ==
    <<101, 109, 97, 105, 108, 72, 97, 115, 104>>
\* "timestamp"
KeyTimestamp ==
    <<116, 105, 109, 101, 115, 116, 97, 109, 112>>
\* "purpose"
KeyPurpose ==
    <<112, 117, 114, 112, 111, 115, 101>>
\* "platform"
KeyPlatform ==
    <<112, 108, 97, 116, 102, 111, 114, 109>>
\* "requiresServerWatermark"
KeyRequiresServerWatermark ==
    <<114, 101, 113, 117, 105, 114, 101, 115, 83, 101, 114, 118, 101, 114, 87, 97, 116,
      101, 114, 109, 97, 114, 107>>
\* "driver_registration"
StrDriverRegistration ==
    <<100, 114, 105, 118, 101, 114, 95, 114, 101, 103, 105, 115, 116, 114, 97, 116, 105,
      111, 110>>
\* "deligo_website"
StrDeligoWebsite ==
    <<100, 101, 108, 105, 103, 111, 95, 119, 101, 98, 115, 105, 116, 101>>
\* "true"
StrTrue ==
    <<116, 114, 117, 101>>
\* "Unsupported file type: "
MsgUnsupported ==
    <<85, 110, 115, 117, 112, 112, 111, 114, 116, 101, 100, 32, 102, 105, 108, 101, 32,
      116, 121, 112, 101, 58, 32>>
\* "Canvas context not available"
MsgCanvas ==
    <<67, 97, 110, 118, 97, 115, 32, 99, 111, 110, 116, 101, 120, 116, 32, 110, 111, 116,
      32, 97, 118, 97, 105, 108, 97, 98, 108, 101>>
\* "Watermarking only supports JPEG and PNG images"
MsgOnlyImages ==
    <<87, 97, 116, 101, 114, 109, 97, 114, 107, 105, 110, 103, 32, 111, 110, 108, 121, 32,
      115, 117, 112, 112, 111, 114, 116, 115, 32, 74, 80, 69, 71, 32, 97, 110, 100, 32, 80,
      78, 71, 32, 105, 109, 97, 103, 101, 115>>
\* "0123456789abcdef"
HexDigits ==
    <<48, 49, 50, 51, 52, 53, 54, 55, 56, 57, 97, 98, 99, 100, 101, 102>>
\* the base64 alphabet of btoa/atob
B64Alphabet ==
    <<65, 66, 67, 68, 69, 70, 71, 72, 73, 74, 75, 76, 77, 78, 79, 80, 81, 82, 83, 84, 85,
      86, 87, 88, 89, 90, 97, 98, 99, 100, 101, 102, 103, 104, 105, 106, 107, 108, 109,
      110, 111, 112, 113, 114, 115, 116, 117, 118, 119, 120, 121, 122, 48, 49, 50, 51, 52,
      53, 54, 55, 56, 57, 43, 47>>

(***************************************************************************)
(* Generic string helpers (JavaScript String methods).                     *)
(***************************************************************************)
Min2(a, b) == IF a <= b THEN a ELSE b

Max2(a, b) == IF a >= b THEN a ELSE b

RECURSIVE Concat(_)
\* Array.prototype.join('') of a sequence of strings (by halves, so that the
\* depth of the evaluation stays logarithmic)
Concat(ss) ==
    IF ss = <<>> THEN <<>>
    ELSE IF Len(ss) = 1 THEN ss[1]
    ELSE LET mid == Len(ss) \div 2
         IN  Concat(SubSeq(ss, 1, mid)) \o Concat(SubSeq(ss, mid + 1, Len(ss)))

\* String.prototype.includes / a substring test
Contains(s, t) ==
    \E i \in 0..(Len(s) - Len(t)) : SubSeq(s, i + 1, i + Len(t)) = t

\* String.prototype.split(sep) for a one-character separator: the pieces
\* between consecutive separators, in order
Split(s, sep) ==
    LET seps   == {i \in 1..Len(s) : s[i] = sep}
        nth(k) == IF k = 0 THEN 0
                  ELSE IF k > Cardinality(seps) THEN Len(s) + 1
                  ELSE CHOOSE i \in seps : Cardinality({j \in seps : j < i}) = k - 1
    IN  [k \in 1..(Cardinality(seps) + 1) |-> SubSeq(s, nth(k - 1) + 1, nth(k) - 1)]

\* String.prototype.toLowerCase on the ASCII letters
ToLowerCase(s) ==
    [i \in 1..Len(s) |-> IF s[i] >= 65 /\ s[i] <= 90 THEN s[i] + 32 ELSE s[i]]

RECURSIVE ToBase(_, _)
\* Number.prototype.toString(radix) for radix 2 and 16, digits as code units
ToBase(n, radix) ==
    IF n < radix THEN <<HexDigits[n + 1]>>
    ELSE Append(ToBase(n \div radix, radix), HexDigits[(n % radix) + 1])

\* String.prototype.padStart(width, '0')
PadStart(s, width) ==
    [i \in 1..(Max2(width, Len(s)) - Len(s)) |-> 48] \o s

(***************************************************************************)
(* Base64 codec: btoa over a binary string, atob back (part_013:386-393,   *)
(* part_013:230-235).                                                      *)
(***************************************************************************)
B64Index(c) == CHOOSE i \in 0..63 : B64Alphabet[i + 1] = c

\* the characters of B64Alphabet: A-Z, a-z, 0-9, '+' and '/'
IsB64Char(c) ==
    \/ (c >= 65 /\ c <= 90)
    \/ (c >= 97 /\ c <= 122)
    \/ (c >= 48 /\ c <= 57)
    \/ c = 43
    \/ c = 47

\* btoa: three bytes to four characters, '=' padding at the end
Btoa(bytes) ==
    LET n == Len(bytes)
        byteAt(i) == IF i <= n THEN bytes[i] ELSE 0
    IN  [j \in 1..(4 * ((n + 2) \div 3)) |->
            LET g  == (j - 1) \div 4
                r  == (j - 1) % 4
                b1 == byteAt(3 * g + 1)
                b2 == byteAt(3 * g + 2)
                b3 == byteAt(3 * g + 3)
            IN  CASE r = 0 -> B64Alphabet[(b1 \div 4) + 1]
                  [] r = 1 -> B64Alphabet[((b1 % 4) * 16 + (b2 \div 16)) + 1]
                  [] r = 2 -> IF 3 * g + 2 <= n
                              THEN B64Alphabet[((b2 % 16) * 4 + (b3 \div 64)) + 1]
                              ELSE 61
                  [] r = 3 -> IF 3 * g + 3 <= n THEN B64Alphabet[(b3 % 64) + 1] ELSE 61]

\* a faulty arrayBufferToBase64: the loop starts at the second byte
arrayBufferToBase64Skip(buffer) == Btoa(SubSeq(buffer, 2, Len(buffer)))

\* arrayBufferToBase64: bytes to a binary string, then btoa
arrayBufferToBase64(buffer) == Btoa(buffer)

\* atob accepts padded or unpadded input whose length is not 1 mod 4
AtobValid(s) ==
    LET body == IF Len(s) % 4 = 0 /\ Len(s) >= 2 /\ s[Len(s)] = 61
                THEN (IF s[Len(s) - 1] = 61 THEN SubSeq(s, 1, Len(s) - 2)
                      ELSE SubSeq(s, 1, Len(s) - 1))
                ELSE s
    IN  /\ Len(body) % 4 # 1
        /\ \A i \in 1..Len(body) : IsB64Char(body[i])

\* the bytes of an unpadded base64 body: every character carries six bits
AtobBody(body) ==
    LET m == Len(body)
        v(i) == IF i <= m THEN B64Index(body[i]) ELSE 0
    IN  [k \in 1..((m * 3) \div 4) |->
            LET g == (k - 1) \div 3
                r == (k - 1) % 3
            IN  CASE r = 0 -> v(4 * g + 1) * 4 + (v(4 * g + 2) \div 16)
                  [] r = 1 -> (v(4 * g + 2) % 16) * 16 + (v(4 * g + 3) \div 4)
                  [] r = 2 -> (v(4 * g + 3) % 4) * 64 + v(4 * g + 4)]

\* atob of a valid string: the binary string, one code unit per byte
Atob(s) ==
    LET body == IF Len(s) % 4 = 0 /\ Len(s) >= 2 /\ s[Len(s)] = 61
                THEN (IF s[Len(s) - 1] = 61 THEN SubSeq(s, 1, Len(s) - 2)
                      ELSE SubSeq(s, 1, Len(s) - 1))
                ELSE s
    IN  AtobBody(body)

(***************************************************************************)
(* Blob and dataUrlToBlob (part_013:226-237).                              *)
(***************************************************************************)
Blob(bytes, type) == [bytes |-> bytes, type |-> type]

\* the first match of /:(.*?);/ in s: the text between the first ':' and
\* the first ';' after it; <<>> with found = FALSE when there is none
MimeMatch(s) ==
    LET colons == {i \in 1..Len(s) : s[i] = 58}
    IN  IF colons = {} THEN [found |-> FALSE, mime |-> <<>>]
        ELSE LET c == CHOOSE i \in colons : \A j \in colons : i <= j
                 semis == {i \in (c + 1)..Len(s) : s[i] = 59}
             IN  IF semis = {} THEN [found |-> FALSE, mime |-> <<>>]
                 ELSE LET e == CHOOSE i \in semis : \A j \in semis : i <= j
                      IN  [found |-> TRUE, mime |-> SubSeq(s, c + 1, e - 1)]

\* dataUrlToBlob: [ok, blob]; ok = FALSE when atob throws (arr[1] missing
\* is atob(undefined), which throws as well)
dataUrlToBlob(dataUrl) ==
    LET arr  == Split(dataUrl, 44)
        m    == MimeMatch(arr[1])
        mime == IF m.found THEN m.mime ELSE MimeOctet
    IN  IF Len(arr) < 2 \/ ~AtobValid(arr[2])
        THEN [ok |-> FALSE, blob |-> Blob(<<>>, <<>>)]
        ELSE [ok |-> TRUE, blob |-> Blob(Atob(arr[2]), mime)]

(***************************************************************************)
(* textToBinary (part_013:374-378): every code unit as binary digits,      *)
(* padded on the left to eight.                                            *)
(***************************************************************************)
textToBinary(text) ==
    Concat([i \in 1..Len(text) |-> PadStart(ToBase(text[i], 2), 8)])

(***************************************************************************)
(* The 2D canvas: width, height and the RGBA bytes in raster order.        *)
(***************************************************************************)
Canvas(w, h, data) == [width |-> w, height |-> h, data |-> data]

\* ctx.getImageData(sx, sy, sw, sh): the rectangle's RGBA bytes; pixels
\* outside the canvas read as transparent black
getImageData(cv, sx, sy, sw, sh) ==
    [width |-> sw, height |-> sh,
     data |-> [j \in 1..(sw * sh * 4) |->
        LET p == (j - 1) \div 4
            c == (j - 1) % 4
            x == sx + (p % sw)
            y == sy + (p \div sw)
        IN  IF x >= 0 /\ x < cv.width /\ y >= 0 /\ y < cv.height
            THEN cv.data[(y * cv.width + x) * 4 + c + 1]
            ELSE 0]]

\* ctx.putImageData(imageData, dx, dy): the canvas with the rectangle replaced
putImageData(cv, img, dx, dy) ==
    [cv EXCEPT !.data =
        [j \in 1..Len(cv.data) |->
            LET p == (j - 1) \div 4
                c == (j - 1) % 4
                x == p % cv.width
                y == p \div cv.width
            IN  IF x >= dx /\ x < dx + img.width /\ y >= dy /\ y < dy + img.height
                THEN img.data[((y - dy) * img.width + (x - dx)) * 4 + c + 1]
                ELSE cv.data[j]]]

(***************************************************************************)
(* applyInvisibleWatermark (part_013:302-333).                             *)
(***************************************************************************)
\* Math.min(100, Math.floor(width * 0.1), Math.floor(height * 0.1))
RegionCap == 100

\* a faulty regionSize: a tenth rounded up
regionSizeCeil(width, height) ==
    Min2(RegionCap, Min2((width + 9) \div 10, (height + 9) \div 10))

regionSize(width, height) == Min2(RegionCap, Min2(width \div 10, height \div 10))

\* a faulty SetLsb: the bit is or-ed in without clearing the old one
SetLsbNoClear(v, bitChar) == IF v % 2 = 1 THEN v ELSE v + (bitChar - 48)

\* (data[i + 2] & 0xFE) | bit, with bit = parseInt(binary[bitIndex], 10)
SetLsb(v, bitChar) == (v - (v % 2)) + (bitChar - 48)

RECURSIVE EmbedLoopGreen(_, _, _, _)
\* a faulty EmbedLoop: the bit goes into data[i + 1], the green channel
EmbedLoopGreen(data, binary, i, bitIndex) ==
    IF i < Len(data) /\ bitIndex < Len(binary)
    THEN EmbedLoopGreen([data EXCEPT ![i + 2] = SetLsb(data[i + 2], binary[bitIndex + 1])],
                        binary, i + 4, bitIndex + 1)
    ELSE data

RECURSIVE EmbedLoop(_, _, _, _)
\* for (i = 0; i < data.length && bitIndex < binary.length; i += 4)
\* with 0-based i and bitIndex as in the source
EmbedLoop(data, binary, i, bitIndex) ==
    IF i < Len(data) /\ bitIndex < Len(binary)
    THEN EmbedLoop([data EXCEPT ![i + 3] = SetLsb(data[i + 3], binary[bitIndex + 1])],
                   binary, i + 4, bitIndex + 1)
    ELSE data

\* the canvas after the call, or threw = TRUE: getImageData with a zero
\* width or height throws IndexSizeError
applyInvisibleWatermark(cv, metadataStr, width, height) ==
    LET binary == textToBinary(metadataStr)
        rs     == regionSize(width, height)
    IN  IF rs = 0 THEN [threw |-> TRUE, canvas |-> cv]
        ELSE LET imageData == getImageData(cv, width - rs, height - rs, rs, rs)
                 data      == EmbedLoop(imageData.data, binary, 0, 0)
             IN  [threw |-> FALSE,
                  canvas |-> putImageData(cv, [imageData EXCEPT !.data = data],
                                          width - rs, height - rs)]

(***************************************************************************)
(* Hashing and serialisation (part_013:335-339, 365-372, 380-384).         *)
(***************************************************************************)
\* TextEncoder.encode: UTF-8 of the code units (one to three bytes each)
Utf8(s) ==
    Concat([i \in 1..Len(s) |->
        IF s[i] < 128 THEN <<s[i]>>
        ELSE IF s[i] < 2048 THEN <<192 + (s[i] \div 64), 128 + (s[i] % 64)>>
        ELSE <<224 + (s[i] \div 4096), 128 + ((s[i] \div 64) % 64), 128 + (s[i] % 64)>>])

RECURSIVE WeightedSum(_, _, _, _)
\* sum of bytes[i] * i^p over lo..hi, modulo 65536
WeightedSum(bytes, p, lo, hi) ==
    IF lo > hi THEN 0
    ELSE IF lo = hi
    THEN (bytes[lo] * (IF p = 0 THEN 1 ELSE IF p = 1 THEN lo ELSE lo * lo)) % 65536
    ELSE LET mid == (lo + hi) \div 2
         IN  (WeightedSum(bytes, p, lo, mid) + WeightedSum(bytes, p, mid + 1, hi)) % 65536

\* crypto.subtle.digest('SHA-256', bytes): a 32-byte digest.  The platform's
\* SHA-256 is stood in for by a deterministic 32-byte checksum of the input
\* (per output byte a mix of three position-weighted sums of the bytes);
\* what the model keeps of it is that it is a function of the bytes alone,
\* 32 bytes long, and not the input itself.
DigestLen == 32

Sha256(bytes) ==
    LET n  == Len(bytes)
        s0 == WeightedSum(bytes, 0, 1, n)
        s1 == WeightedSum(bytes, 1, 1, n)
        s2 == WeightedSum(bytes, 2, 1, n)
    IN  [k \in 1..DigestLen |->
            (s0 * (2 * k + 29) + s1 * (k * k + 3) + (s2 \div 7) * (k + 11) + 97 * k + n) % 256]

\* arrayBufferToHex: two lower-case hex digits per byte
arrayBufferToHex(buffer) ==
    Concat([i \in 1..Len(buffer) |-> PadStart(ToBase(buffer[i], 16), 2)])

\* hashEmail: the first 16 hex digits of SHA-256 of the lower-cased email
EmailHashLen == 16

\* a faulty hashEmail: the lower-cased email itself is stored
hashEmailPlain(email) == ToLowerCase(email)

hashEmail(email) ==
    SubSeq(arrayBufferToHex(Sha256(Utf8(ToLowerCase(email)))), 1, EmailHashLen)

\* JSON.stringify of a string: quoted, with '"' and '\' escaped (the strings
\* of the metadata hold no control characters)
JsonQuote(s) ==
    <<34>> \o Concat([i \in 1..Len(s) |->
                 IF s[i] = 34 \/ s[i] = 92 THEN <<92, s[i]>> ELSE <<s[i]>>]) \o <<34>>

\* one property of an object: a key and a string or boolean value
Prop(key, value, isString) == [key |-> key, value |-> value, isString |-> isString]

\* JSON.stringify of an object, given as its properties in insertion order
JsonStringify(obj) ==
    <<123>> \o
    Concat([i \in 1..Len(obj) |->
        (IF i > 1 THEN <<44>> ELSE <<>>) \o JsonQuote(obj[i].key) \o <<58>> \o
        (IF obj[i].isString THEN JsonQuote(obj[i].value) ELSE obj[i].value)]) \o
    <<125>>

\* generateMetadataHash: 64 hex digits of SHA-256 of the serialised metadata
generateMetadataHash(metadata) ==
    arrayBufferToHex(Sha256(Utf8(JsonStringify(metadata))))

\* Date.prototype.toISOString for a time t in milliseconds after the epoch,
\* t below one minute: "1970-01-01T00:00:SS.mmmZ"
IsoPrefix ==
    <<49, 57, 55, 48, 45, 48, 49, 45, 48, 49, 84, 48, 48, 58, 48, 48, 58>>

toISOString(t) ==
    IsoPrefix \o PadStart(ToBase(t \div 1000, 10), 2) \o <<46>> \o
    PadStart(ToBase(t % 1000, 10), 3) \o <<90>>

\* crypto.randomUUID(): the n-th identifier the generator hands out, as a
\* version-4 UUID string
UuidPrefix ==
    <<48, 48, 48, 48, 48, 48, 48, 48, 45, 48, 48, 48, 48, 45, 52, 48, 48, 48, 45, 56, 48,
      48, 48, 45, 48, 48, 48, 48, 48, 48, 48, 48, 48, 48>>

randomUUID(n) == UuidPrefix \o PadStart(ToBase(n, 16), 2)

(***************************************************************************)
(* Files and the image codec of the platform.                              *)
(***************************************************************************)
File(name, type, bytes) == [name |-> name, type |-> type, bytes |-> bytes]

\* An image file's bytes stand for an encoded raster: the width, the height
\* and the RGBA bytes in raster order.  loadImage + drawImage decode them;
\* bytes that are no such raster fail to load (img.onerror).
DecodeOk(bytes) ==
    /\ Len(bytes) >= 2
    /\ bytes[1] >= 1 /\ bytes[2] >= 1
    /\ Len(bytes) = 2 + 4 * bytes[1] * bytes[2]

\* canvas.width = image.width; canvas.height = image.height; drawImage
drawImage(bytes) == Canvas(bytes[1], bytes[2], SubSeq(bytes, 3, Len(bytes)))

\* canvas.toDataURL('image/png'): lossless
EncodePng(cv) == <<cv.width, cv.height>> \o cv.data

\* canvas.toDataURL('image/jpeg', 0.92): lossy.  The colour channels come back
\* quantised to a step the encoder chooses (1 = this image survived intact),
\* alpha comes back opaque.
EncodeJpeg(cv, step) ==
    <<cv.width, cv.height>> \o
    [j \in 1..Len(cv.data) |->
        IF (j - 1) % 4 = 3 THEN 255 ELSE (cv.data[j] \div step) * step]

\* canvas.toDataURL(mimeType, quality): "data:<mime>;base64,<payload>"
toDataURL(cv, mimeType, step) ==
    StrData \o mimeType \o StrBase64Comma \o
    Btoa(IF mimeType = MimePng THEN EncodePng(cv) ELSE EncodeJpeg(cv, step))

(***************************************************************************)
(* applyVisibleWatermark (part_013:250-300).  Which pixels the glyphs of    *)
(* fillText touch depends on the platform's font rasteriser: the tiled     *)
(* text's coverage is an input (cover), the corner stamp's box comes from   *)
(* its measured width and height.                                          *)
(***************************************************************************)
\* source-over of an opaque pixel with a grey of the given opacity (in
\* thousandths)
BlendOver(v, grey, opacity) == (grey * opacity + v * (1000 - opacity) + 500) \div 1000

\* rgba(128, 128, 128, opacity), opacity = 0.15
TileGrey == 128

TileOpacity == 150

\* rgba(100, 100, 100, opacity * 1.5)
CornerGrey == 100

CornerOpacity == 225

\* const padding = 10
CornerPadding == 10

\* the tiled text covers the pixels (x, y) with (x + y) % cover.period = 0
TileCovers(cover, x, y) == (x + y) % cover.period = 0

\* the corner stamp's glyph box: baseline at height - padding, text from
\* width - cornerMetrics.width - padding
CornerCovers(cover, width, height, x, y) ==
    /\ x >= width - cover.cornerWidth - CornerPadding
    /\ x < width - CornerPadding
    /\ y >= height - CornerPadding - cover.cornerHeight
    /\ y < height - CornerPadding

applyVisibleWatermark(cv, cover, width, height) ==
    [cv EXCEPT !.data =
        [j \in 1..Len(cv.data) |->
            LET p  == (j - 1) \div 4
                c  == (j - 1) % 4
                x  == p % cv.width
                y  == p \div cv.width
                v1 == IF c < 3 /\ TileCovers(cover, x, y)
                      THEN BlendOver(cv.data[j], TileGrey, TileOpacity)
                      ELSE cv.data[j]
            IN  IF c < 3 /\ CornerCovers(cover, width, height, x, y)
                THEN BlendOver(v1, CornerGrey, CornerOpacity)
                ELSE v1]]

(***************************************************************************)
(* The environment of one processDocument call: what the platform answers. *)
(*   readOk    the file's content can be read (arrayBuffer, image load)     *)
(*   ctxOk     canvas.getContext('2d') returns a context                    *)
(*   cover     the rasteriser's coverage of the visible watermark           *)
(*   jpegStep  the quantisation of the JPEG encoder                         *)
(***************************************************************************)
Env(readOk, ctxOk, cover, jpegStep) ==
    [readOk |-> readOk, ctxOk |-> ctxOk, cover |-> cover, jpegStep |-> jpegStep]

NoCanvas == Canvas(0, 0, <<>>)

NoBlob == Blob(<<>>, <<>>)

\* a faulty IsImageType: everything that is not a PDF is taken for an image
IsImageTypeLoose(type) == type # MimePdf

\* ['image/jpeg', 'image/png', 'image/jpg'].includes(file.type)
IsImageType(type) == type \in {MimeJpeg, MimePng, MimeJpg}

\* the metadata object of applyWatermark (part_013:95-101)
ImageMetadata(sessionId, email, timestamp) ==
    << Prop(KeySessionId, sessionId, TRUE),
       Prop(KeyEmailHash, hashEmail(email), TRUE),
       Prop(KeyTimestamp, toISOString(timestamp), TRUE),
       Prop(KeyPurpose, StrDriverRegistration, TRUE),
       Prop(KeyPlatform, StrDeligoWebsite, TRUE) >>

\* the metadata object of applyPdfWatermark (part_013:144-150)
PdfMetadata(sessionId, email, timestamp) ==
    << Prop(KeySessionId, sessionId, TRUE),
       Prop(KeyEmailHash, hashEmail(email), TRUE),
       Prop(KeyTimestamp, toISOString(timestamp), TRUE),
       Prop(KeyPurpose, StrDriverRegistration, TRUE),
       Prop(KeyRequiresServerWatermark, StrTrue, FALSE) >>

\* what applyWatermark settles with; threw = TRUE is a rejection, errKind
\* "Error" with its message, "load" for the image's error event, "index" for
\* the IndexSizeError of getImageData
WatermarkOutcome(threw, errKind, message, data, name, mime, hash, at, meta, drawn, cv, steps) ==
    [threw |-> threw, errKind |-> errKind, message |-> message, data |-> data,
     originalName |-> name, mimeType |-> mime, metadataHash |-> hash,
     processedAt |-> at, metadata |-> meta, drawn |-> drawn, canvas |-> cv,
     steps |-> steps]

WatermarkThrows(errKind, message, meta, drawn, cv, steps) ==
    WatermarkOutcome(TRUE, errKind, message, <<>>, <<>>, <<>>, <<>>, <<>>, meta, drawn, cv,
                     steps)

\* the visible pass runs when options.visibleWatermark is true (default true)
VisibleRequested(options) == options.visibleWatermark # "false"

\* applyWatermark (part_013:63-128)
applyWatermark(file, options, env) ==
    IF ~IsImageType(file.type)
    THEN WatermarkThrows("Error", MsgOnlyImages, <<>>, NoCanvas, NoCanvas, <<>>)
    ELSE IF ~env.readOk \/ ~DecodeOk(file.bytes)
    THEN WatermarkThrows("load", <<>>, <<>>, NoCanvas, NoCanvas, <<"loadImage">>)
    ELSE IF ~env.ctxOk
    THEN WatermarkThrows("Error", MsgCanvas, <<>>, NoCanvas, NoCanvas,
                         <<"loadImage", "getContext">>)
    ELSE LET drawn    == drawImage(file.bytes)
             metadata == ImageMetadata(options.sessionId, options.email, options.timestamp)
             inv      == applyInvisibleWatermark(drawn, JsonStringify(metadata),
                                                 drawn.width, drawn.height)
             steps1   == <<"loadImage", "getContext", "drawImage", "hashEmail",
                           "applyInvisibleWatermark">>
         IN  IF inv.threw
             THEN WatermarkThrows("index", <<>>, metadata, drawn, drawn, steps1)
             ELSE LET cv == IF VisibleRequested(options)
                            THEN applyVisibleWatermark(inv.canvas, env.cover,
                                                       drawn.width, drawn.height)
                            ELSE inv.canvas
                      steps2   == IF VisibleRequested(options)
                                  THEN Append(steps1, "applyVisibleWatermark")
                                  ELSE steps1
                      mimeType == IF file.type = MimePng THEN MimePng ELSE MimeJpeg
                  IN  WatermarkOutcome(FALSE, "none", <<>>,
                          toDataURL(cv, mimeType, env.jpegStep), file.name, mimeType,
                          generateMetadataHash(metadata), toISOString(options.timestamp),
                          metadata, drawn, cv,
                          steps2 \o <<"toDataURL", "generateMetadataHash">>)

\* applyPdfWatermark (part_013:134-157); file.arrayBuffer() rejects when the
\* content cannot be read
applyPdfWatermark(file, options, env) ==
    IF ~env.readOk
    THEN [threw |-> TRUE, data |-> <<>>, requiresServerProcessing |-> FALSE,
          metadata |-> <<>>, steps |-> <<"arrayBuffer">>]
    ELSE [threw |-> FALSE,
          data |-> DataUrlPdfPrefix \o arrayBufferToBase64(file.bytes),
          requiresServerProcessing |-> TRUE,
          metadata |-> PdfMetadata(options.sessionId, options.email, options.timestamp),
          steps |-> <<"arrayBuffer", "arrayBufferToBase64", "hashEmail">>]

\* what processDocument settles with: a ProcessedDocument (settled =
\* "resolved") or a rejection; metadata, drawn and canvas record what the
\* call built on the way, steps the functions it ran
Processed(settled, errKind, message, blob, name, mime, hasHash, hash, id, at, meta, drawn, cv, steps) ==
    [settled |-> settled, errKind |-> errKind, message |-> message, blob |-> blob,
     originalName |-> name, mimeType |-> mime, hasMetadataHash |-> hasHash,
     metadataHash |-> hash, watermarkId |-> id, processedAt |-> at,
     metadata |-> meta, drawn |-> drawn, canvas |-> cv, steps |-> steps]

Rejected(errKind, message, meta, drawn, cv, steps) ==
    Processed("rejected", errKind, message, NoBlob, <<>>, <<>>, FALSE, <<>>, <<>>, <<>>,
              meta, drawn, cv, steps)

\* a faulty WatermarkOptions: the session id is a stale one, not the call's
WatermarkOptionsStaleSession(options, sessionId, timestamp) ==
    [sessionId |-> UuidPrefix \o <<48, 48>>, email |-> options.userEmail,
     timestamp |-> timestamp,
     visibleWatermark |-> IF options.addVisibleWatermark = "undefined" THEN "true"
                          ELSE options.addVisibleWatermark]

\* options.addVisibleWatermark ?? true
WatermarkOptions(options, sessionId, timestamp) ==
    [sessionId |-> sessionId, email |-> options.userEmail, timestamp |-> timestamp,
     visibleWatermark |-> IF options.addVisibleWatermark = "undefined" THEN "true"
                          ELSE options.addVisibleWatermark]

\* processDocument (part_013:163-205): uuid is the draw of crypto.randomUUID,
\* now the reading of the clock
processDocument(file, options, uuid, now, env) ==
    LET sessionId        == randomUUID(uuid)
        watermarkOptions == WatermarkOptions(options, sessionId, now)
    IN  IF file.type = MimePdf
        THEN LET result == applyPdfWatermark(file, watermarkOptions, env)
                 conv   == dataUrlToBlob(result.data)
             IN  IF result.threw
                 THEN Rejected("read", <<>>, <<>>, NoCanvas, NoCanvas, result.steps)
                 ELSE IF ~conv.ok
                 THEN Rejected("atob", <<>>, result.metadata, NoCanvas, NoCanvas,
                               Append(result.steps, "dataUrlToBlob"))
                 ELSE Processed("resolved", "none", <<>>, conv.blob, file.name, file.type,
                                FALSE, <<>>, sessionId, toISOString(now),
                                result.metadata, NoCanvas, NoCanvas,
                                Append(result.steps, "dataUrlToBlob"))
        ELSE IF IsImageType(file.type)
        THEN LET result == applyWatermark(file, watermarkOptions, env)
                 conv   == dataUrlToBlob(result.data)
             IN  IF result.threw
                 THEN Rejected(result.errKind, result.message, result.metadata,
                               result.drawn, result.canvas, result.steps)
                 ELSE IF ~conv.ok
                 THEN Rejected("atob", <<>>, result.metadata, result.drawn, result.canvas,
                               Append(result.steps, "dataUrlToBlob"))
                 ELSE Processed("resolved", "none", <<>>, conv.blob, result.originalName,
                                result.mimeType, TRUE, result.metadataHash, sessionId,
                                result.processedAt, result.metadata, result.drawn,
                                result.canvas, Append(result.steps, "dataUrlToBlob"))
        ELSE Rejected("Error", MsgUnsupported \o file.type, <<>>, NoCanvas, NoCanvas, <<>>)

(***************************************************************************)
(* State.                                                                  *)
(***************************************************************************)
VARIABLES
    \* SpecEmbed: one call of applyInvisibleWatermark
    ePhase,             \* "ready", "done" or "threw"
    ePre,               \* the canvas before the call
    eMeta,              \* the metadata object passed
    eCanvas,            \* the canvas after the call
    \* SpecProc: one call of processDocument
    pPhase,             \* "idle" or "settled"
    pFile,              \* the file passed
    pOptions,           \* the ProcessDocumentOptions passed
    pEnv,               \* what the platform answered during the call
    pResult,            \* what the call settled with
    \* Spec: SecureAgentRegistrationModal at its documents step
    currentStep,        \* useState currentStep
    registrationToken,  \* TRUE when a registration token is held
    email,              \* useState email
    documents,          \* useState documents: docType -> [present, file]
    isLoading,
    isProcessingDocs,
    processingProgress,
    error,              \* "none" (undefined) or the message shown
    isOpen,             \* the isOpen prop of the modal
    resetTimer,         \* TRUE while the reset effect's 300 ms timeout is armed
    \* the running handleDocumentsSubmit call
    hPc,                \* where the handler is suspended
    hEmail,             \* the email its closure holds
    docEntries,         \* its docEntries: the selected documents, in order
    docIndex,           \* index into docEntries of the document in the loop
    processedDocs,      \* its processedDocs: the writes, [field, base64], in order
    processed,          \* its counter of finished documents
    pending,            \* the settlement of the awaited processDocument call
    outcome,            \* per docType: "pending", "processed", "fallback", "none"
    calls,              \* per docType: processDocument calls of this submission
    submissions,        \* number of handleDocumentsSubmit calls so far
    picks,              \* number of files picked or removed so far
    requests,           \* the registerDriverJSON calls made: their documents
    uuidCount,          \* identifiers crypto.randomUUID has handed out
    clock,              \* the time, milliseconds
    \* SpecLib: one call of a library function
    callFn,             \* the function called
    callPhase,          \* "idle", "ready", "encoded" or "done"
    callArgs,           \* its arguments
    callResult,         \* what it returned or threw
    \* SpecEncrypt: the encryptData calls made so far
    ivLog,              \* per call: [key, data, drawn, package]
    \* SpecIds: the processDocument calls made so far
    idLog,              \* per call: [uuid, now, result]
    \* SpecOtp: the wizard at its e-mail and code steps
    otp,                \* useState otp
    isResending,
    canResendOtp,
    rateLimitMap,       \* the module's rateLimitMap: action -> time of the last granted call
    verifyTimers,       \* the armed auto-submit timeouts: the closure each will call
    resendTimers,       \* the armed setCanResendOtp(true) timeouts: when each is due
    inFlight,           \* the handlers suspended at their request
    sendLog,            \* the sendOTP calls made: the time of each
    verifyLog,          \* the verifyOTP calls made: the code of each
    rlLog,              \* the checkRateLimit calls made
    \* SpecMw: the middleware
    mwMap,              \* its rateLimitMap: identifier -> [count, resetTime]
    mwClock,            \* Date.now() of the server, from the load of the module
    mwSweeps,           \* the runs of cleanupRateLimits so far
    mwWindow,           \* per identifier: when its window was opened, and how many
                        \* requests were let through in it
    mwLast,             \* the last request handled and its answer
    mwOthers,           \* the requests handled of the clients that are capped
    \* SpecReq: one call of a request function of lib/config/api.tsx
    reqFn,              \* the function called
    reqPhase,           \* "idle", "fetching", "reading" (the body) or "settled"
    reqStatus,          \* response.status, once fetch has resolved
    reqTimer,           \* the timeout of createTimeoutController: [armed, due]
    reqClock,           \* the time since the call, milliseconds
    reqResult           \* what the call settled with

embedVars == <<ePhase, ePre, eMeta, eCanvas>>

procVars == <<pPhase, pFile, pOptions, pEnv, pResult>>

wizardVars ==
    <<currentStep, registrationToken, email, documents, isLoading,
      isProcessingDocs, processingProgress, error, isOpen, resetTimer, hPc, hEmail,
      docEntries, docIndex,
      processedDocs, processed, pending, outcome, calls, submissions, picks, requests,
      uuidCount, clock>>

libVars == <<callFn, callPhase, callArgs, callResult, ivLog, idLog>>

\* what the reset effect leaves alone of the variables of SpecOtp
reqVars == <<reqFn, reqPhase, reqStatus, reqTimer, reqClock, reqResult>>

mwVars == <<mwMap, mwClock, mwSweeps, mwWindow, mwLast, mwOthers>>

netRest ==
    <<isResending, canResendOtp, rateLimitMap, verifyTimers, resendTimers, inFlight,
      sendLog, verifyLog, rlLog, mwVars, reqVars>>

netVars == <<otp, netRest>>

vars == <<embedVars, procVars, wizardVars, libVars, netVars>>

(***************************************************************************)
(* Inputs.                                                                 *)
(***************************************************************************)
\* RGBA bytes of a w x h test raster; seed varies the content, every channel
\* takes odd and even values, alpha included
PatternData(w, h, seed) ==
    [j \in 1..(4 * w * h) |-> (j * 37 + seed * 101 + ((j - 1) \div 4) * 59) % 256]

\* the same with an opaque alpha channel (a scanned document)
OpaqueData(w, h, seed) ==
    [j \in 1..(4 * w * h) |->
        IF (j - 1) % 4 = 3 THEN 255 ELSE (j * 37 + seed * 101 + ((j - 1) \div 4) * 59) % 256]

\* names: "a.png", "b.jpg", "c.pdf", "d.txt"
NamePng == <<97, 46, 112, 110, 103>>

NameJpg == <<98, 46, 106, 112, 103>>

NamePdf == <<99, 46, 112, 100, 102>>

NameTxt == <<100, 46, 116, 120, 116>>

\* emails: "Jo@x.tn" and "a@b.c"
EmailJo == <<74, 111, 64, 120, 46, 116, 110>>

EmailAb == <<97, 64, 98, 46, 99>>

Emails == {EmailJo, EmailAb}

ImageBytes(w, h, seed) == <<w, h>> \o OpaqueData(w, h, seed)

\* "%PDF" and a few bytes covering the padding cases of base64
PdfBytes == {<<>>, <<37>>, <<37, 80>>, <<37, 80, 68>>, <<37, 80, 68, 70, 0, 255, 128>>}

NoFile == File(<<>>, <<>>, <<>>)

Flags == {"true", "false", "undefined"}

Options(userEmail, documentType, visible, invisible) ==
    [userEmail |-> userEmail, documentType |-> documentType,
     addVisibleWatermark |-> visible, addInvisibleWatermark |-> invisible]

Cover(period, cw, ch) == [period |-> period, cornerWidth |-> cw, cornerHeight |-> ch]

Covers == {Cover(2, 6, 4), Cover(3, 25, 12)}

JpegSteps == {1, 2}

Envs == {Env(r, c, cov, q) : r \in BOOLEAN, c \in BOOLEAN, cov \in Covers, q \in JpegSteps}

NoEnv == Env(TRUE, TRUE, Cover(2, 6, 4), 1)

NoResult == Processed("idle", "none", <<>>, NoBlob, <<>>, <<>>, FALSE, <<>>, <<>>, <<>>,
                      <<>>, NoCanvas, NoCanvas, <<>>)

(***************************************************************************)
(* The wizard's constants (part_002:62-78, 320-325; part_004:60-84).       *)
(***************************************************************************)
STEP_ORDER ==
    <<"email-name", "otp-verification", "password", "vehicle-info", "documents", "success">>

\* Object.entries(documents) order: the keys as useState declares them
DocTypes == <<"drivingLicense", "vehicleRegistration", "insuranceDocument", "workPatent">>

DocTypeSet == {DocTypes[i] : i \in 1..Len(DocTypes)}

\* DOCUMENT_CONFIG[docType].required
Required(docType) == docType # "workPatent"

\* a handler that writes every entry under the document's own key
apiFieldMapUnmapped(docType) == docType

apiFieldMap(docType) ==
    CASE docType = "drivingLicense"      -> "driving_license"
      [] docType = "vehicleRegistration" -> "vehicle_registration"
      [] docType = "insuranceDocument"   -> "insurance_document"
      [] docType = "workPatent"          -> "work_patent"
      [] OTHER                           -> docType

NoDocument == [present |-> FALSE, file |-> NoFile]

NoPending == [settled |-> "none", errKind |-> "none", message |-> <<>>, blob |-> NoBlob]

NetIdle ==
    /\ otp = <<>>
    /\ isResending = FALSE
    /\ canResendOtp = FALSE
    /\ rateLimitMap = <<>>
    /\ verifyTimers = <<>>
    /\ resendTimers = {}
    /\ inFlight = <<>>
    /\ sendLog = <<>>
    /\ verifyLog = <<>>
    /\ rlLog = <<>>
    /\ mwMap = <<>>
    /\ mwClock = 0
    /\ mwSweeps = 0
    /\ mwWindow = <<>>
    /\ mwLast = <<>>
    /\ mwOthers = 0
    /\ reqFn = "none"
    /\ reqPhase = "idle"
    /\ reqStatus = 0
    /\ reqTimer = [armed |-> FALSE, due |-> 0]
    /\ reqClock = 0
    /\ reqResult = <<>>

\* the wizard as useState leaves it, its step and its token apart
WizardRest ==
    /\ NetIdle
    /\ documents = [d \in DocTypeSet |-> NoDocument]
    /\ isLoading = FALSE
    /\ isProcessingDocs = FALSE
    /\ processingProgress = 0
    /\ error = "none"
    /\ hPc = "idle"
    /\ isOpen = TRUE
    /\ resetTimer = FALSE
    /\ hEmail = <<>>
    /\ docEntries = <<>>
    /\ docIndex = 0
    /\ processedDocs = <<>>
    /\ processed = 0
    /\ pending = NoPending
    /\ outcome = [d \in DocTypeSet |-> "none"]
    /\ calls = [d \in DocTypeSet |-> 0]
    /\ submissions = 0
    /\ picks = 0
    /\ requests = <<>>
    /\ uuidCount = 0
    /\ clock = 0

WizardIdle ==
    /\ currentStep = "documents"
    /\ registrationToken = TRUE
    /\ WizardRest

LibIdle ==
    /\ callFn = "none"
    /\ callPhase = "idle"
    /\ callArgs = <<>>
    /\ callResult = <<>>
    /\ ivLog = <<>>
    /\ idLog = <<>>

EmbedIdle ==
    /\ ePhase = "idle"
    /\ ePre = NoCanvas
    /\ eMeta = <<>>
    /\ eCanvas = NoCanvas

ProcIdle ==
    /\ pPhase = "idle"
    /\ pFile = NoFile
    /\ pOptions = Options(<<>>, "none", "undefined", "undefined")
    /\ pEnv = NoEnv
    /\ pResult = NoResult

(***************************************************************************)
(* SpecEmbed: applyInvisibleWatermark applied to a canvas.                 *)
(***************************************************************************)
\* number of different contents per canvas size
EmbedSeeds == 2

EmbedDims == {1, 9} \cup {10 * k : k \in 1..MaxTenths}

\* metadata objects: {}, {"a":"b"} and {"a":"Ā"} (a code unit above 255)
EmbedObjects ==
    { <<>>,
      <<Prop(<<97>>, <<98>>, TRUE)>>,
      <<Prop(<<97>>, <<256>>, TRUE)>> }

EmbedInit ==
    /\ ePhase = "ready"
    /\ \E w \in EmbedDims, h \in EmbedDims, seed \in 1..EmbedSeeds :
          ePre = Canvas(w, h, PatternData(w, h, seed))
    /\ eMeta \in EmbedObjects
    /\ eCanvas = ePre
    /\ ProcIdle
    /\ WizardIdle
    /\ LibIdle
    /\ email = <<>>

\* applyInvisibleWatermark(ctx, metadata, canvas.width, canvas.height)
ApplyInvisible ==
    /\ ePhase = "ready"
    /\ LET r == applyInvisibleWatermark(ePre, JsonStringify(eMeta), ePre.width, ePre.height)
       IN  /\ eCanvas' = r.canvas
           /\ ePhase' = IF r.threw THEN "threw" ELSE "done"
    /\ UNCHANGED <<ePre, eMeta, procVars, wizardVars, libVars, netVars>>

EmbedNext == ApplyInvisible

SpecEmbed == EmbedInit /\ [][EmbedNext]_vars

(***************************************************************************)
(* Properties of SpecEmbed.                                                *)
(***************************************************************************)
\* the payload of the call: the bits of the serialised metadata
EmbedBits == textToBinary(JsonStringify(eMeta))

EmbedRegion == regionSize(ePre.width, ePre.height)

\* the byte of channel c of the k-th pixel (from 0, raster order) of the
\* bottom-right square of side rs of canvas cv
RegionByte(cv, rs, k, c) ==
    cv.data[((cv.height - rs + (k \div rs)) * cv.width
             + (cv.width - rs + (k % rs))) * 4 + c + 1]

\* C5: when the reserved region holds at least B pixels, the blue-channel
\* least-significant bits of its first B pixels, in raster order, are the B
\* bits of the serialised metadata, in order.
C5_PayloadReadBack ==
    (ePhase = "done" /\ EmbedRegion * EmbedRegion >= Len(EmbedBits)) =>
        \A k \in 0..(Len(EmbedBits) - 1) :
            RegionByte(eCanvas, EmbedRegion, k, 2) % 2 = EmbedBits[k + 1] - 48

\* a payload that fits its region has been embedded and changed the canvas
C5_Witness ==
    /\ ePhase = "done"
    /\ Len(EmbedBits) > 0
    /\ EmbedRegion * EmbedRegion >= Len(EmbedBits)
    /\ eCanvas # ePre

\* C6: the call changes nothing but the least-significant bit of the blue
\* channel of the region's first B pixels: the size is kept, and a byte that
\* differs from the canvas before is a blue byte, inside the bottom-right
\* region, of a pixel that carries a payload bit, and differs in bit 0 only.
C6_OnlyPayloadLsbChanged ==
    (ePhase \in {"done", "threw"}) =>
        /\ eCanvas.width = ePre.width
        /\ eCanvas.height = ePre.height
        /\ Len(eCanvas.data) = Len(ePre.data)
        /\ \A j \in 1..Len(ePre.data) :
              eCanvas.data[j] # ePre.data[j] =>
                LET p == (j - 1) \div 4
                    x == p % ePre.width
                    y == p \div ePre.width
                    rx == x - (ePre.width - EmbedRegion)
                    ry == y - (ePre.height - EmbedRegion)
                IN  /\ (j - 1) % 4 = 2
                    /\ rx >= 0
                    /\ ry >= 0
                    /\ ry * EmbedRegion + rx < Len(EmbedBits)
                    /\ eCanvas.data[j] \div 2 = ePre.data[j] \div 2

\* an embedding that changed the canvas and left pixels of the region
\* beyond the payload
C6_Witness ==
    /\ ePhase = "done"
    /\ eCanvas # ePre
    /\ Len(EmbedBits) < EmbedRegion * EmbedRegion

(***************************************************************************)
(* SpecProc: processDocument called on one file.                           *)
(***************************************************************************)
\* the files handed to processDocument: rasters of 10k x 10k pixels as PNG
\* and JPEG (both spellings of the type), a raster too small for a region,
\* bytes that are no raster, PDFs, and files of unsupported or no type
ProcFiles ==
    {File(NamePng, MimePng, ImageBytes(10 * k, 10 * k, 1)) : k \in 1..FileTenths}
    \cup {File(NameJpg, t, ImageBytes(10 * k, 10 * k, 2)) :
            t \in {MimeJpeg, MimeJpg}, k \in 1..FileTenths}
    \cup {File(NamePng, MimePng, ImageBytes(9, 12, 1)),
          File(NamePng, MimePng, <<1, 2, 3>>)}
    \cup {File(NamePdf, MimePdf, b) : b \in PdfBytes}
    \cup {File(NameTxt, MimeText, <<104, 105>>), File(NameTxt, MimeText, <<>>),
          File(NameTxt, <<>>, <<104, 105>>)}

ProcOptions ==
    {Options(e, "drivingLicense", v, i) : e \in Emails, v \in Flags, i \in Flags}

\* draws of crypto.randomUUID and readings of the clock
ProcDraws == {<<1, 0>>, <<2, 59999>>}

ProcInit ==
    /\ EmbedIdle
    /\ ProcIdle
    /\ WizardIdle
    /\ LibIdle
    /\ email = <<>>

\* await processDocument(file, options)
CallProcessDocument ==
    /\ pPhase = "idle"
    /\ \E file \in ProcFiles, options \in ProcOptions, draw \in ProcDraws, env \in Envs :
          /\ pFile' = file
          /\ pOptions' = options
          /\ pEnv' = env
          /\ pResult' = processDocument(file, options, draw[1], draw[2], env)
    /\ pPhase' = "settled"
    /\ UNCHANGED <<embedVars, wizardVars, libVars, netVars>>

\* the caller has taken the settlement; the next call can be made
ProcReturn ==
    /\ pPhase = "settled"
    /\ pPhase' = "idle"
    /\ pFile' = NoFile
    /\ pOptions' = Options(<<>>, "none", "undefined", "undefined")
    /\ pEnv' = NoEnv
    /\ pResult' = NoResult
    /\ UNCHANGED <<embedVars, wizardVars, libVars, netVars>>

ProcNext == CallProcessDocument \/ ProcReturn

SpecProc == ProcInit /\ [][ProcNext]_vars

(***************************************************************************)
(* Properties of SpecProc.                                                 *)
(***************************************************************************)
IsSupportedType(type) == type \in {MimeJpeg, MimePng, MimeJpg, MimePdf}

\* C1: for a JPEG or PNG file whose watermarking fails internally (no 2D
\* context, or a raster the region cannot be read from), processDocument
\* does not throw: it returns the original bytes under the original name and
\* media type, without a metadataHash.
C1_FallbackOriginalReturned ==
    ( /\ pPhase = "settled"
      /\ IsImageType(pFile.type)
      /\ pEnv.readOk /\ DecodeOk(pFile.bytes)
      /\ (~pEnv.ctxOk \/ regionSize(pFile.bytes[1], pFile.bytes[2]) = 0) ) =>
        /\ pResult.settled = "resolved"
        /\ pResult.blob.bytes = pFile.bytes
        /\ pResult.originalName = pFile.name
        /\ pResult.mimeType = pFile.type
        /\ ~pResult.hasMetadataHash

\* C2: a file whose media type is none of image/jpeg, image/png, image/jpg,
\* application/pdf makes processDocument reject with "Unsupported file type:
\* <type>"; nothing was read, drawn, hashed or encoded and there is no output.
C2_UnsupportedTypeRejected ==
    (pPhase = "settled" /\ ~IsSupportedType(pFile.type)) =>
        /\ pResult.settled = "rejected"
        /\ pResult.errKind = "Error"
        /\ SubSeq(pResult.message, 1, Len(MsgUnsupported)) = MsgUnsupported
        /\ SubSeq(pResult.message, Len(MsgUnsupported) + 1, Len(pResult.message))
              = pFile.type
        /\ pResult.steps = <<>>
        /\ pResult.blob = NoBlob
        /\ pResult.metadata = <<>>
        /\ pResult.canvas = NoCanvas
        /\ ~pResult.hasMetadataHash

\* a text/plain file with content has been rejected
C2_Witness ==
    /\ pPhase = "settled"
    /\ pFile.type = MimeText
    /\ pFile.bytes # <<>>
    /\ pResult.settled = "rejected"

IsHex(s) == \A i \in 1..Len(s) : \E d \in 1..16 : HexDigits[d] = s[i]

PropKeys(obj) == [i \in 1..Len(obj) |-> obj[i].key]

\* C7: every metadata object that applyWatermark or applyPdfWatermark built
\* has the keys sessionId, emailHash, timestamp, purpose and platform or
\* requiresServerWatermark; emailHash is 16 hex digits; and for an email
\* address (it holds an '@') neither a key, nor a value, nor the serialised
\* object that is embedded holds the email, as typed or lower-cased.
C7_NoPlaintextEmail ==
    (pPhase = "settled" /\ pResult.metadata # <<>>) =>
        LET m == pResult.metadata
            e == pOptions.userEmail
        IN  /\ PropKeys(m) \in
                 { <<KeySessionId, KeyEmailHash, KeyTimestamp, KeyPurpose, KeyPlatform>>,
                   <<KeySessionId, KeyEmailHash, KeyTimestamp, KeyPurpose,
                     KeyRequiresServerWatermark>> }
            /\ Len(m[2].value) = EmailHashLen
            /\ IsHex(m[2].value)
            /\ \A i \in 1..Len(m) :
                  /\ ~Contains(m[i].value, e) /\ ~Contains(m[i].value, ToLowerCase(e))
                  /\ ~Contains(m[i].key, e) /\ ~Contains(m[i].key, ToLowerCase(e))
            /\ ~Contains(JsonStringify(m), e)
            /\ ~Contains(JsonStringify(m), ToLowerCase(e))

\* metadata has been embedded in an image for an email with capital letters
C7_Witness ==
    /\ pPhase = "settled"
    /\ pResult.settled = "resolved"
    /\ IsImageType(pFile.type)
    /\ pResult.metadata # <<>>
    /\ pOptions.userEmail = EmailJo
    /\ pResult.canvas # pResult.drawn

\* C8: for a PDF whose content can be read, processDocument returns a blob
\* with exactly the file's bytes (through base64, the data URL and back),
\* of type application/pdf, the file's name, and no metadataHash.
C8_PdfBytesPreserved ==
    (pPhase = "settled" /\ pFile.type = MimePdf /\ pEnv.readOk) =>
        /\ pResult.settled = "resolved"
        /\ pResult.blob.bytes = pFile.bytes
        /\ pResult.blob.type = MimePdf
        /\ pResult.mimeType = MimePdf
        /\ pResult.originalName = pFile.name
        /\ ~pResult.hasMetadataHash

\* an empty PDF has gone through
C8_Witness ==
    /\ pPhase = "settled"
    /\ pFile.type = MimePdf
    /\ pFile.bytes = <<>>
    /\ pResult.settled = "resolved"

\* a PDF whose length is no multiple of three (padded base64) and that
\* holds the bytes 0 and 255 has gone through
C8_WitnessPadded ==
    /\ pPhase = "settled"
    /\ pFile.type = MimePdf
    /\ Len(pFile.bytes) % 3 = 1
    /\ \E i \in 1..Len(pFile.bytes) : pFile.bytes[i] = 255
    /\ pResult.settled = "resolved"

\* C9: each pass runs exactly when its flag asks for it: the canvas that is
\* encoded is the decoded image with the invisible pass applied unless
\* addInvisibleWatermark is false, then the visible pass applied unless
\* addVisibleWatermark is false; and the passes that ran are those.
C9_FlagsHonoured ==
    (pPhase = "settled" /\ pResult.settled = "resolved" /\ IsImageType(pFile.type)) =>
        LET drawn == pResult.drawn
            inv   == IF pOptions.addInvisibleWatermark # "false"
                     THEN applyInvisibleWatermark(drawn, JsonStringify(pResult.metadata),
                                                  drawn.width, drawn.height).canvas
                     ELSE drawn
            vis   == IF pOptions.addVisibleWatermark # "false"
                     THEN applyVisibleWatermark(inv, pEnv.cover, drawn.width, drawn.height)
                     ELSE inv
            ran(f) == \E i \in 1..Len(pResult.steps) : pResult.steps[i] = f
        IN  /\ pResult.canvas = vis
            /\ ran("applyInvisibleWatermark") <=> (pOptions.addInvisibleWatermark # "false")
            /\ ran("applyVisibleWatermark") <=> (pOptions.addVisibleWatermark # "false")

\* the part of C9 the code keeps: the visible pass runs exactly when
\* addVisibleWatermark is not false
C9_VisibleFlagHonoured ==
    (pPhase = "settled" /\ pResult.settled = "resolved" /\ IsImageType(pFile.type)) =>
        LET drawn == pResult.drawn
            inv   == applyInvisibleWatermark(drawn, JsonStringify(pResult.metadata),
                                             drawn.width, drawn.height).canvas
        IN  pResult.canvas =
                IF pOptions.addVisibleWatermark # "false"
                THEN applyVisibleWatermark(inv, pEnv.cover, drawn.width, drawn.height)
                ELSE inv

(***************************************************************************)
(* Spec: the documents step of the wizard and handleDocumentsSubmit.       *)
(* The wizard has arrived at the documents step with the registration      *)
(* token of a verified OTP; the user selects files and submits.            *)
(***************************************************************************)
\* validateDocument's maxSizeMB * 1024 * 1024 for maxSizeMB = 10
MaxSizeBytes == 10485760

\* validExtensions[file.type]; <<>> when the type has no entry
validExtensions(type) ==
    CASE type = MimeJpeg -> {<<106, 112, 103>>, <<106, 112, 101, 103>>}
      [] type = MimePng  -> {<<112, 110, 103>>}
      [] type = MimePdf  -> {<<112, 100, 102>>}
      [] OTHER           -> {}

\* validateDocument(file, {required, maxSizeMB: 10, allowedTypes}).isValid
\* (api.tsx:813-858)
validateDocument(file, required) ==
    IF Len(file.bytes) = 0 THEN ~required
    ELSE LET pieces    == Split(file.name, 46)
             extension == ToLowerCase(pieces[Len(pieces)])
         IN  /\ IsSupportedType(file.type)
             /\ Len(file.bytes) <= MaxSizeBytes
             /\ (extension # <<>> /\ validExtensions(file.type) # {})
                   => extension \in validExtensions(file.type)

\* the files on the user's disk: a 10x10 PNG scan, a PDF, a text file and an
\* empty text file
ScanPng == File(NamePng, MimePng, ImageBytes(10, 10, 1))

ScanPdf == File(NamePdf, MimePdf, <<37, 80, 68>>)

NoteTxt == File(NameTxt, MimeText, <<104, 105>>)

EmptyTxt == File(NameTxt, MimeText, <<>>)

\* the files the user tries for each document
WizardFiles(docType) ==
    CASE docType = "drivingLicense"      -> {ScanPng, NoteTxt}
      [] docType = "vehicleRegistration" -> {ScanPdf, EmptyTxt}
      [] docType = "insuranceDocument"   -> {ScanPng, EmptyTxt}
      [] OTHER                           -> {NoteTxt, EmptyTxt}

\* what the platform answers during a call made by the wizard
WizardEnvs == {Env(r, c, Cover(2, 6, 4), 1) : r \in BOOLEAN, c \in BOOLEAN}

Init ==
    /\ EmbedIdle
    /\ ProcIdle
    /\ WizardIdle
    /\ LibIdle
    /\ email = EmailJo

\* FileReader.readAsDataURL(blob), then result.split(',')[1]
ReadAsBase64(blob) ==
    Split(StrData \o (IF blob.type = <<>> THEN MimeOctet ELSE blob.type)
          \o StrBase64Comma \o Btoa(blob.bytes), 44)[2]

\* a faulty ProgressOf: Math.floor in place of Math.round
ProgressOfFloor(n, total) == (n * 70) \div total

\* Math.round((processed / totalDocs) * 70)
ProgressOf(n, total) == (n * 70 * 2 + total) \div (2 * total)

\* the object processedDocs after the writes: the last write of a field wins
PayloadOf(writes) ==
    { [field |-> writes[i].field, data |-> writes[i].data] :
        i \in {k \in 1..Len(writes) :
                 \A j \in (k + 1)..Len(writes) : writes[j].field # writes[k].field} }

\* what the handler keeps of a settlement, until the iteration that awaited
\* it is over
Settlement(r) ==
    [settled |-> r.settled, errKind |-> r.errKind, message |-> r.message, blob |-> r.blob]

\* StepDocumentUpload's inputs are disabled while isLoading || isProcessing
\* (and the step is rendered only inside the open dialog)
InputsEnabled ==
    isOpen /\ currentStep = "documents" /\ ~isLoading /\ ~isProcessingDocs

\* the user still picks files, and will still submit them
MayPick == InputsEnabled /\ picks < MaxPicks /\ submissions < MaxSubmissions

\* what the handlers of the documents step never write
frame == <<embedVars, procVars, libVars, netVars, isOpen, resetTimer>>

handlerVars ==
    <<hPc, hEmail, docEntries, docIndex, processedDocs, processed, pending, outcome, calls,
      submissions, requests, uuidCount, clock>>

\* handleFileSelect with a file that validateDocument accepts
SelectFile ==
    /\ MayPick
    /\ picks' = picks + 1
    /\ \E d \in DocTypeSet : \E file \in WizardFiles(d) :
          /\ validateDocument(file, Required(d))
          /\ documents' = [documents EXCEPT ![d] = [present |-> TRUE, file |-> file]]
    /\ UNCHANGED <<frame, currentStep, registrationToken, email, isLoading,
                   isProcessingDocs, processingProgress, error, handlerVars>>

\* handleFileSelect with a file that validateDocument refuses: only the
\* step's fieldErrors change, the document stays as it was
RefuseFile ==
    /\ MayPick
    /\ \E d \in DocTypeSet : \E file \in WizardFiles(d) : ~validateDocument(file, Required(d))
    /\ UNCHANGED vars

\* the remove button: handleFileSelect(docType, null)
RemoveFile ==
    /\ MayPick
    /\ picks' = picks + 1
    /\ \E d \in DocTypeSet :
          /\ documents[d].present
          /\ documents' = [documents EXCEPT ![d] = NoDocument]
    /\ UNCHANGED <<frame, currentStep, registrationToken, email, isLoading,
                   isProcessingDocs, processingProgress, error, handlerVars>>

\* after the loop: setProcessingProgress(80); setIsProcessingDocs(false);
\* setIsLoading(true); registerDriverJSON(..., processedDocs) is called
CallRegister(writes) ==
    /\ processingProgress' = 80
    /\ isProcessingDocs' = FALSE
    /\ isLoading' = TRUE
    /\ requests' = Append(requests, PayloadOf(writes))
    /\ hPc' = "awaitRegister"

\* the submit button (enabled when the required documents are present and
\* nothing is running): handleSubmit, then handleDocumentsSubmit up to its
\* first await
Submit ==
    /\ InputsEnabled
    /\ hPc = "idle"
    /\ submissions < MaxSubmissions
    /\ \A d \in DocTypeSet : Required(d) => documents[d].present
    /\ IF ~registrationToken
       THEN /\ error' = "Session expired. Please start again."
            /\ currentStep' = "email-name"
            /\ UNCHANGED <<isLoading, isProcessingDocs, processingProgress, handlerVars>>
       ELSE LET sel     == {i \in 1..Len(DocTypes) : documents[DocTypes[i]].present}
                nth(k)  == CHOOSE i \in sel : Cardinality({j \in sel : j < i}) = k - 1
                entries == [k \in 1..Cardinality(sel) |->
                              [docType |-> DocTypes[nth(k)],
                               file |-> documents[DocTypes[nth(k)]].file]]
            IN  /\ error' = "none"
                /\ hEmail' = email
                /\ docEntries' = entries
                /\ processedDocs' = <<>>
                /\ processed' = 0
                /\ submissions' = submissions + 1
                /\ outcome' = [d \in DocTypeSet |->
                                 IF documents[d].present THEN "pending" ELSE "none"]
                /\ IF entries = <<>>
                   THEN /\ CallRegister(<<>>)
                        /\ calls' = [d \in DocTypeSet |-> 0]
                        /\ UNCHANGED <<pending, uuidCount, clock, docIndex>>
                   ELSE /\ isProcessingDocs' = TRUE
                        /\ processingProgress' = 0
                        /\ \E env \in WizardEnvs :
                              /\ pending' = Settlement(processDocument(entries[1].file,
                                                Options(email, entries[1].docType, "true",
                                                        "true"),
                                                uuidCount + 1, clock, env))
                              /\ uuidCount' = uuidCount + 1
                              /\ clock' = clock + 1
                              /\ docIndex' = 1
                              /\ calls' = [d \in DocTypeSet |->
                                             IF d = entries[1].docType THEN 1 ELSE 0]
                              /\ hPc' = "awaitProcess"
                        /\ UNCHANGED <<isLoading, requests>>
                /\ UNCHANGED currentStep
    /\ UNCHANGED <<frame, registrationToken, email, documents, picks>>

\* processDocument resolved: the handler reads the processed blob
ProcessResolved ==
    /\ hPc = "awaitProcess"
    /\ pending.settled = "resolved"
    /\ hPc' = "awaitRead"
    /\ UNCHANGED <<frame, currentStep, registrationToken, email, documents, isLoading,
                   isProcessingDocs, processingProgress, error, hEmail, docEntries,
                   docIndex,
                   processedDocs, processed, pending, outcome, calls, submissions,
                   picks, requests, uuidCount, clock>>

\* a handler that, when processDocument rejected, goes on to the next
\* document at once and leaves the fallback of this one for later
ProcessRejectedSkip ==
    /\ hPc = "awaitProcess"
    /\ pending.settled = "rejected"
    /\ IF docIndex < Len(docEntries)
       THEN /\ \E env \in WizardEnvs :
                  pending' = Settlement(processDocument(docEntries[docIndex + 1].file,
                                 Options(hEmail, docEntries[docIndex + 1].docType, "true",
                                         "true"),
                                 uuidCount + 1, clock, env))
            /\ uuidCount' = uuidCount + 1
            /\ clock' = clock + 1
            /\ docIndex' = docIndex + 1
            /\ calls' = [calls EXCEPT ![docEntries[docIndex + 1].docType] = @ + 1]
            /\ UNCHANGED hPc
       ELSE /\ hPc' = "awaitFallback"
            /\ UNCHANGED <<pending, uuidCount, clock, docIndex, calls>>
    /\ UNCHANGED <<frame, currentStep, registrationToken, email, documents, isLoading,
                   isProcessingDocs, processingProgress, error, hEmail, docEntries,
                   processedDocs, processed, outcome, submissions, picks, requests>>

\* a handler that calls processDocument a second time for a document whose
\* first call rejected, before it falls back
ProcessRejectedRetry ==
    /\ hPc = "awaitProcess"
    /\ pending.settled = "rejected"
    /\ LET entry == docEntries[docIndex]
       IN  IF calls[entry.docType] < 2
           THEN /\ \E env \in WizardEnvs :
                      pending' = Settlement(processDocument(entry.file,
                                     Options(hEmail, entry.docType, "true", "true"),
                                     uuidCount + 1, clock, env))
                /\ uuidCount' = uuidCount + 1
                /\ clock' = clock + 1
                /\ calls' = [calls EXCEPT ![entry.docType] = @ + 1]
                /\ UNCHANGED hPc
           ELSE /\ hPc' = "awaitFallback"
                /\ UNCHANGED <<pending, uuidCount, clock, calls>>
    /\ UNCHANGED <<frame, currentStep, registrationToken, email, documents, isLoading,
                   isProcessingDocs, processingProgress, error, hEmail, docEntries,
                   docIndex,
                   processedDocs, processed, outcome, submissions, picks, requests>>

\* processDocument rejected: the inner catch reads the original file
ProcessRejected ==
    /\ hPc = "awaitProcess"
    /\ pending.settled = "rejected"
    /\ hPc' = "awaitFallback"
    /\ UNCHANGED <<frame, currentStep, registrationToken, email, documents, isLoading,
                   isProcessingDocs, processingProgress, error, hEmail, docEntries,
                   docIndex,
                   processedDocs, processed, pending, outcome, calls, submissions,
                   picks, requests, uuidCount, clock>>

\* processedDocs[apiFieldMap[docType] || docType] = base64; processed++;
\* setProcessingProgress(...); then the next iteration's processDocument
\* call, or the code after the loop
RecordAndContinue(base64, how) ==
    LET entry  == docEntries[docIndex]
        writes == Append(processedDocs,
                         [field |-> apiFieldMap(entry.docType), data |-> base64])
    IN  /\ processedDocs' = writes
        /\ processed' = processed + 1
        /\ outcome' = [outcome EXCEPT ![entry.docType] = how]
        /\ IF docIndex < Len(docEntries)
           THEN /\ processingProgress' = ProgressOf(processed + 1, Len(docEntries))
                /\ \E env \in WizardEnvs :
                      /\ pending' = Settlement(processDocument(docEntries[docIndex + 1].file,
                                        Options(hEmail, docEntries[docIndex + 1].docType,
                                                "true", "true"),
                                        uuidCount + 1, clock, env))
                      /\ uuidCount' = uuidCount + 1
                      /\ clock' = clock + 1
                      /\ docIndex' = docIndex + 1
                      /\ calls' = [calls EXCEPT ![docEntries[docIndex + 1].docType] = @ + 1]
                      /\ hPc' = "awaitProcess"
                /\ UNCHANGED <<isLoading, isProcessingDocs, requests>>
           ELSE /\ CallRegister(writes)
                /\ pending' = NoPending
                /\ UNCHANGED <<uuidCount, clock, docIndex, calls>>
        /\ UNCHANGED <<frame, currentStep, registrationToken, email, documents, error,
                       hEmail, docEntries, submissions, picks>>

\* the reader of the processed blob loaded
ReadLoaded ==
    /\ hPc = "awaitRead"
    /\ RecordAndContinue(ReadAsBase64(pending.blob), "processed")

\* the reader of the processed blob failed: the inner catch reads the
\* original file
ReadFailed ==
    /\ hPc = "awaitRead"
    /\ hPc' = "awaitFallback"
    /\ UNCHANGED <<frame, currentStep, registrationToken, email, documents, isLoading,
                   isProcessingDocs, processingProgress, error, hEmail, docEntries,
                   docIndex,
                   processedDocs, processed, pending, outcome, calls, submissions,
                   picks, requests, uuidCount, clock>>

\* the reader of the original file loaded
FallbackLoaded ==
    /\ hPc = "awaitFallback"
    /\ LET file == docEntries[docIndex].file
       IN  RecordAndContinue(ReadAsBase64(Blob(file.bytes, file.type)), "fallback")

\* a faulty FailAndFinish: no finally block
FailAndFinishNoFinally ==
    /\ error' = "Registration failed. Please try again."
    /\ UNCHANGED <<isLoading, isProcessingDocs>>
    /\ hPc' = "idle"

\* setError(...) of the outer catch, then the finally block
FailAndFinish ==
    /\ error' = "Registration failed. Please try again."
    /\ isLoading' = FALSE
    /\ isProcessingDocs' = FALSE
    /\ hPc' = "idle"

\* the reader of the original file failed: the rejection leaves the loop
FallbackFailed ==
    /\ hPc = "awaitFallback"
    /\ FailAndFinish
    /\ outcome' = [outcome EXCEPT ![docEntries[docIndex].docType] = "unreadable"]
    /\ pending' = NoPending
    /\ UNCHANGED <<frame, currentStep, registrationToken, email, documents,
                   processingProgress, hEmail, docEntries, docIndex, processedDocs,
                   processed, calls, submissions, picks, requests, uuidCount, clock>>

\* registerDriverJSON resolved: setProcessingProgress(100); goToNextStep()
\* with the handler's currentStepIndex (documents); the finally block
RegisterResolved ==
    /\ hPc = "awaitRegister"
    /\ processingProgress' = 100
    /\ currentStep' = STEP_ORDER[6]
    /\ error' = "none"
    /\ isLoading' = FALSE
    /\ isProcessingDocs' = FALSE
    /\ hPc' = "idle"
    /\ UNCHANGED <<frame, registrationToken, email, documents, hEmail, docEntries,
                   docIndex,
                   processedDocs, processed, pending, outcome, calls, submissions,
                   picks, requests, uuidCount, clock>>

\* registerDriverJSON rejected
RegisterRejected ==
    /\ hPc = "awaitRegister"
    /\ FailAndFinish
    /\ UNCHANGED <<frame, currentStep, registrationToken, email, documents,
                   processingProgress, hEmail, docEntries, docIndex, processedDocs,
                   processed,
                   pending, outcome, calls, submissions, picks, requests, uuidCount,
                   clock>>

\* the dialog is dismissed (Escape, the overlay, the close button, or the
\* button of the success step): onClose(); the parent sets isOpen to false
\* and the reset effect arms its timeout
Close ==
    /\ isOpen
    /\ isOpen' = FALSE
    /\ resetTimer' = TRUE
    /\ UNCHANGED <<embedVars, procVars, libVars, netVars, currentStep, registrationToken, email, documents,
                   isLoading, isProcessingDocs, processingProgress, error, handlerVars,
                   picks>>

\* the timeout of the reset effect fires, 300 ms after the close
ResetElapsed ==
    /\ ~isOpen
    /\ resetTimer
    /\ resetTimer' = FALSE
    /\ currentStep' = STEP_ORDER[1]
    /\ email' = <<>>
    /\ documents' = [d \in DocTypeSet |-> NoDocument]
    /\ registrationToken' = FALSE
    /\ error' = "none"
    /\ otp' = <<>>
    /\ UNCHANGED <<embedVars, procVars, libVars, netRest, isOpen, isLoading, isProcessingDocs,
                   processingProgress, handlerVars, picks>>

Next ==
    \/ SelectFile
    \/ RefuseFile
    \/ RemoveFile
    \/ Submit
    \/ ProcessResolved
    \/ ProcessRejected
    \/ ReadLoaded
    \/ ReadFailed
    \/ FallbackLoaded
    \/ FallbackFailed
    \/ RegisterResolved
    \/ RegisterRejected
    \/ Close
    \/ ResetElapsed

Spec == Init /\ [][Next]_vars

(***************************************************************************)
(* Properties of Spec.                                                     *)
(***************************************************************************)
\* the documents of the submission in hand, or of the last one
Selected == {d \in DocTypeSet : outcome[d] # "none"}

Terminal == {"processed", "fallback"}

\* the mapping of document keys to request fields as the specification
\* states it
MappedField(d) ==
    CASE d = "drivingLicense"      -> "driving_license"
      [] d = "vehicleRegistration" -> "vehicle_registration"
      [] d = "insuranceDocument"   -> "insurance_document"
      [] d = "workPatent"          -> "work_patent"

IsBase64(str) == \A i \in 1..Len(str) : IsB64Char(str[i]) \/ str[i] = 61

\* the loop wrote exactly one entry for each selected document, under its
\* mapped field, and registerDriverJSON was called; the contents of the
\* entries and of the request are compared while the call is in flight
\* (nothing writes them afterwards)
OneEntryEachAndSent ==
    /\ processed = Len(docEntries)
    /\ Len(processedDocs) = Cardinality(Selected)
    /\ \A d \in Selected :
          /\ outcome[d] \in Terminal
          /\ Cardinality({i \in 1..Len(processedDocs) :
                            processedDocs[i].field = MappedField(d)}) = 1
    /\ Len(requests) >= 1
    /\ Cardinality(requests[Len(requests)]) = Cardinality(Selected)
    /\ hPc = "awaitRegister" =>
          /\ requests[Len(requests)] = PayloadOf(processedDocs)
          /\ \A i \in 1..Len(processedDocs) :
                LET d == docEntries[i].docType
                IN  /\ processedDocs[i].field = MappedField(d)
                    /\ IsBase64(processedDocs[i].data)
                    /\ outcome[d] = "fallback" =>
                          processedDocs[i].data = Btoa(docEntries[i].file.bytes)

C4_UnsupportedTypeSurfaced ==
    \A i \in 1..Len(docEntries) :
        ~IsSupportedType(docEntries[i].file.type) =>
            /\ hPc = "awaitRegister" =>
                  \A e \in requests[Len(requests)] :
                      e.field # MappedField(docEntries[i].docType)
            /\ (hPc = "idle" /\ submissions > 0) => error # "none"

InLoop == hPc \in {"awaitProcess", "awaitRead", "awaitFallback"}

\* round(i / n * 70), halves rounded up: the integer r with
\* r - 1/2 <= 70 i / n < r + 1/2
RoundedShare(i, n) ==
    CHOOSE r \in 0..70 : 2 * n * r - n <= 140 * i /\ 140 * i < 2 * n * r + n

\* C11: while the handler awaits something for the document at position k
\* of the submission, every earlier document has its outcome recorded and
\* its entry written, the progress shown is that of k - 1 finished
\* documents, processDocument has been called for no later document, and
\* the document at k is the only one whose call has been made without an
\* outcome; in no state do two documents have a call without an outcome.
C11_OneAtATime ==
    /\ Cardinality({d \in DocTypeSet : calls[d] >= 1 /\ outcome[d] = "pending"}) <= 1
    /\ InLoop =>
          /\ docIndex \in 1..Len(docEntries)
          /\ processed = docIndex - 1
          /\ Len(processedDocs) = docIndex - 1
          /\ processingProgress = RoundedShare(docIndex - 1, Len(docEntries))
          /\ \A j \in 1..Len(docEntries) :
                LET d == docEntries[j].docType
                IN  /\ j < docIndex =>
                          /\ outcome[d] \in Terminal
                          /\ calls[d] = 1
                          /\ processedDocs[j].field = MappedField(d)
                    /\ j = docIndex => outcome[d] = "pending" /\ calls[d] = 1
                    /\ j > docIndex => outcome[d] = "pending" /\ calls[d] = 0

\* processDocument is running for the third document after the first was
\* processed and the second fell back
C11_Witness ==
    /\ hPc = "awaitProcess"
    /\ docIndex = 3
    /\ outcome[docEntries[1].docType] = "processed"
    /\ outcome[docEntries[2].docType] = "fallback"
    /\ processingProgress > 0

\* C12: in a submission of N documents the progress is 0 at its start,
\* round(i/N*70) while the handler awaits something for document i + 1, and
\* 80 while registerDriverJSON is awaited; it becomes 100 only in the step in
\* which registerDriverJSON resolved; and no step of a submission lowers it.
C12_ProgressMonotonic ==
    [][ /\ submissions' = submissions => processingProgress' >= processingProgress
        /\ submissions' # submissions => processingProgress' = 0
        /\ hPc' \in {"awaitProcess", "awaitRead", "awaitFallback"} =>
              processingProgress' = RoundedShare(processed', Len(docEntries'))
        /\ hPc' = "awaitRegister" => processingProgress' = 80
        /\ (processingProgress' = 100 /\ processingProgress # 100) =>
              /\ hPc = "awaitRegister"
              /\ processingProgress = 80
              /\ hPc' = "idle"
              /\ currentStep' = "success"
      ]_vars

\* a submission of four documents went through 18, 35 and 53 to 80 and,
\* registerDriverJSON having resolved, to 100
C12_Witness ==
    /\ processingProgress = 100
    /\ Len(docEntries) = 4
    /\ processed = 4
    /\ currentStep = "success"
    /\ RoundedShare(1, 4) = 18 /\ RoundedShare(2, 4) = 35 /\ RoundedShare(3, 4) = 53

\* C13: once the dialog has been closed no registerDriverJSON call is made:
\* a submission whose documents were still being processed at the close
\* sends nothing.
C13_NoRequestAfterClose ==
    [][ ~isOpen => requests' = requests ]_vars

(***************************************************************************)
(* The encryption library (src/lib/security/encryption.ts).                *)
(***************************************************************************)
\* the ASCII-only reading of a binary string: a faulty base64ToArrayBuffer
base64ToArrayBufferAscii(base64) ==
    [ok |-> AtobValid(base64),
     bytes |-> IF AtobValid(base64)
               THEN [i \in 1..Len(Atob(base64)) |-> Atob(base64)[i] % 128]
               ELSE <<>>]

\* base64ToArrayBuffer: atob, then one byte per code unit; ok = FALSE when
\* atob throws
base64ToArrayBuffer(base64) ==
    [ok |-> AtobValid(base64),
     bytes |-> IF AtobValid(base64) THEN Atob(base64) ELSE <<>>]

\* const KEY_LENGTH
KEY_LENGTH == 256

\* the default of deriveKey's iterations parameter
DefaultIterations == 100000

\* an optional argument: given = FALSE is an omitted (undefined) argument
Arg(given, value) == [given |-> given, value |-> value]

\* deriveKey(password, salt, iterations): the key crypto.subtle.deriveKey
\* hands back, described by the parameters it was derived under; PBKDF2
\* refuses zero iterations with an OperationError (ok = FALSE)
deriveKey(password, salt, iterations) ==
    LET n == IF iterations.given THEN iterations.value ELSE DefaultIterations
    IN  [ok |-> n # 0,
         algorithm |-> "AES-GCM",
         length |-> KEY_LENGTH,
         extractable |-> FALSE,
         kdf |-> "PBKDF2",
         hash |-> "SHA-256",
         material |-> Utf8(password),
         salt |-> salt,
         iterations |-> n]

(***************************************************************************)
(* The API configuration (src/lib/config/api.tsx:13-62).                   *)
(***************************************************************************)
\* String.prototype.trim: without the white space at either end
Trim(s) ==
    LET ink == {i \in 1..Len(s) : s[i] \notin {32, 9, 10, 13}}
    IN  IF ink = {} THEN <<>>
        ELSE SubSeq(s, CHOOSE i \in ink : \A j \in ink : i <= j,
                       CHOOSE i \in ink : \A j \in ink : i >= j)

\* the first index at or after from where s holds c; 0 when there is none
IndexOf(s, c, from) ==
    LET at == {i \in from..Len(s) : s[i] = c}
    IN  IF at = {} THEN 0 ELSE CHOOSE i \in at : \A j \in at : i <= j

\* the last index where s holds c; 0 when there is none
LastIndexOf(s, c) ==
    LET at == {i \in 1..Len(s) : s[i] = c}
    IN  IF at = {} THEN 0 ELSE CHOOSE i \in at : \A j \in at : i >= j

\* "auth-service-bc5l.onrender.com,driver-service-dy7i.onrender.com,
\*  vehicle-type-service.onrender.com"
DefaultAllowedHosts ==
    <<97, 117, 116, 104, 45, 115, 101, 114, 118, 105, 99, 101, 45, 98, 99, 53, 108,
      46, 111, 110, 114, 101, 110, 100, 101, 114, 46, 99, 111, 109, 44, 100, 114, 105,
      118, 101, 114, 45, 115, 101, 114, 118, 105, 99, 101, 45, 100, 121, 55, 105, 46,
      111, 110, 114, 101, 110, 100, 101, 114, 46, 99, 111, 109, 44, 118, 101, 104,
      105, 99, 108, 101, 45, 116, 121, 112, 101, 45, 115, 101, 114, 118, 105, 99, 101,
      46, 111, 110, 114, 101, 110, 100, 101, 114, 46, 99, 111, 109>>

\* const ALLOWED_HOSTS: the variable, or the default list when it is unset
\* or empty, split at commas, every piece trimmed, empty pieces dropped
ALLOWED_HOSTS(allowedHostsEnv) ==
    LET text   == IF allowedHostsEnv.given /\ allowedHostsEnv.value # <<>>
                  THEN allowedHostsEnv.value
                  ELSE DefaultAllowedHosts
        pieces == Split(text, 44)
    IN  {Trim(pieces[i]) : i \in 1..Len(pieces)} \ {<<>>}

NoUrl == [ok |-> FALSE, protocol |-> <<>>, hostname |-> <<>>, href |-> <<>>]

\* new URL(s) for absolute URLs written scheme://[userinfo@]host[:port][path]:
\* scheme and host in lower case, "/" for an empty path; ok = FALSE is the
\* TypeError for a string with no scheme, no "//" or no host
ParseUrl(s) ==
    LET colon    == IndexOf(s, 58, 1)
        scheme   == ToLowerCase(SubSeq(s, 1, colon - 1))
        rest     == SubSeq(s, colon + 3, Len(s))
        slash    == IndexOf(rest, 47, 1)
        auth     == IF slash = 0 THEN rest ELSE SubSeq(rest, 1, slash - 1)
        path     == IF slash = 0 THEN <<47>> ELSE SubSeq(rest, slash, Len(rest))
        at       == LastIndexOf(auth, 64)
        userinfo == SubSeq(auth, 1, at - 1)
        hostport == SubSeq(auth, at + 1, Len(auth))
        pc       == IndexOf(hostport, 58, 1)
        hostname == ToLowerCase(IF pc = 0 THEN hostport ELSE SubSeq(hostport, 1, pc - 1))
        port     == IF pc = 0 THEN <<>> ELSE SubSeq(hostport, pc + 1, Len(hostport))
    IN  IF \/ colon <= 1
           \/ \E i \in 1..Len(scheme) : scheme[i] < 97 \/ scheme[i] > 122
           \/ SubSeq(s, colon + 1, colon + 2) # <<47, 47>>
           \/ hostname = <<>>
        THEN NoUrl
        ELSE [ok |-> TRUE,
              protocol |-> scheme \o <<58>>,
              hostname |-> hostname,
              href |-> scheme \o <<58, 47, 47>>
                       \o (IF at = 0 THEN <<>> ELSE userinfo \o <<64>>)
                       \o hostname
                       \o (IF port = <<>> THEN <<>> ELSE <<58>> \o port)
                       \o path]

\* str.replace(/\/$/, ''): without one trailing slash
StripSlash(str) ==
    IF Len(str) > 0 /\ str[Len(str)] = 47 THEN SubSeq(str, 1, Len(str) - 1) ELSE str

Returned(value) == [threw |-> FALSE, error |-> "none", value |-> value]

Thrown(kind) == [threw |-> TRUE, error |-> kind, value |-> <<>>]

\* a faulty validateServiceUrl: the host is never held against the whitelist
validateServiceUrlAnyHost(urlStr, serviceName, nodeEnv, allowedHostsEnv) ==
    IF ~urlStr.given \/ urlStr.value = <<>>
    THEN IF nodeEnv = "production" THEN Thrown("not configured") ELSE Returned(<<>>)
    ELSE LET url == ParseUrl(urlStr.value)
         IN  IF ~url.ok
             THEN IF nodeEnv = "production" THEN Thrown("TypeError")
                  ELSE Returned(urlStr.value)
             ELSE IF nodeEnv = "production" /\ url.protocol # <<104, 116, 116, 112, 115, 58>>
             THEN Thrown("must use HTTPS")
             ELSE Returned(StripSlash(url.href))

\* validateServiceUrl(urlStr, serviceName) under process.env.NODE_ENV =
\* nodeEnv and NEXT_PUBLIC_ALLOWED_API_HOSTS = allowedHostsEnv; the errors
\* thrown inside the try are caught and, in production, thrown again
validateServiceUrl(urlStr, serviceName, nodeEnv, allowedHostsEnv) ==
    IF ~urlStr.given \/ urlStr.value = <<>>
    THEN IF nodeEnv = "production" THEN Thrown("not configured") ELSE Returned(<<>>)
    ELSE LET url == ParseUrl(urlStr.value)
         IN  IF ~url.ok
             THEN IF nodeEnv = "production" THEN Thrown("TypeError")
                  ELSE Returned(urlStr.value)
             ELSE IF nodeEnv = "production" /\ url.protocol # <<104, 116, 116, 112, 115, 58>>
             THEN Thrown("must use HTTPS")
             ELSE IF nodeEnv = "production"
                     /\ url.hostname \notin ALLOWED_HOSTS(allowedHostsEnv)
             THEN Thrown("not in whitelist")
             ELSE Returned(StripSlash(url.href))

(***************************************************************************)
(* SpecLib: one call of a library function on an argument drawn at the     *)
(* start: the base64 round trip of encryption.ts, dataUrlToBlob,            *)
(* deriveKey and validateServiceUrl.                                       *)
(***************************************************************************)
\* longest byte sequence enumerated for the base64 round trip
CodecLen == 3

CodecBytes == {0, 127, 128, 255}

\* every byte value once, in order
AllBytes == [i \in 1..256 |-> i - 1]

CodecInputs == UNION {[1..n -> CodecBytes] : n \in 0..CodecLen} \cup {AllBytes}

\* "hello"
PrefixWord ==
    <<104, 101, 108, 108, 111>>
\* ";base64"
StrSemiBase64 ==
    <<59, 98, 97, 115, 101, 54, 52>>

DataUrlPrefixes ==
    { <<>>, PrefixWord,
      \* "data:image/png;base64"
      <<100, 97, 116, 97, 58, 105, 109, 97, 103, 101, 47, 112, 110, 103, 59, 98, 97,
        115, 101, 54, 52>>,
      \* "data:application/pdf;base64"
      <<100, 97, 116, 97, 58, 97, 112, 112, 108, 105, 99, 97, 116, 105, 111, 110,
        47, 112, 100, 102, 59, 98, 97, 115, 101, 54, 52>>,
      \* "data:image/png"
      <<100, 97, 116, 97, 58, 105, 109, 97, 103, 101, 47, 112, 110, 103>>,
      \* "image/png;base64"
      <<105, 109, 97, 103, 101, 47, 112, 110, 103, 59, 98, 97, 115, 101, 54, 52>>,
      \* "data:image/png;charset=utf-8"
      <<100, 97, 116, 97, 58, 105, 109, 97, 103, 101, 47, 112, 110, 103, 59, 99,
        104, 97, 114, 115, 101, 116, 61, 117, 116, 102, 45, 56>> }

DataUrlPayloads ==
    { <<>>,
      \* "QUJD"
      <<81, 85, 74, 68>>,
      \* "QQ=="
      <<81, 81, 61, 61>>,
      \* "QQ"
      <<81, 81>>,
      \* "Q"
      <<81>>,
      \* "Q!JD"
      <<81, 33, 74, 68>>,
      \* "QUJD="
      <<81, 85, 74, 68, 61>> }

\* prefix "," payload for every pair, and "data:hello" and "hello", which
\* hold no comma
DataUrls ==
    {p \o <<44>> \o b : p \in DataUrlPrefixes, b \in DataUrlPayloads}
        \cup {StrData \o PrefixWord, PrefixWord}

\* passwords "pw" and "", salts of sixteen bytes, of one byte and empty
DerivePasswords == {<<112, 119>>, <<>>}

DeriveSalts == {[i \in 1..16 |-> i], <<7>>, <<>>}

DeriveIterations ==
    {Arg(FALSE, 0)} \cup {Arg(TRUE, n) : n \in {0, 1, 1000, 99999, 100000, 100001, 600000}}

\* "HTTPS://AUTH.X/api/"
UrlUpperPath ==
    <<72, 84, 84, 80, 83, 58, 47, 47, 65, 85, 84, 72, 46, 88, 47, 97, 112, 105, 47>>
\* "auth.x, drv.x,"
HostsEnvShort ==
    <<97, 117, 116, 104, 46, 120, 44, 32, 100, 114, 118, 46, 120, 44>>

\* the values of a NEXT_PUBLIC_*_SERVICE_URL variable, unset and empty
\* included
ServiceUrlTexts ==
    { UrlUpperPath,
      \* "https://auth.x"
      <<104, 116, 116, 112, 115, 58, 47, 47, 97, 117, 116, 104, 46, 120>>,
      \* "https://drv.x/"
      <<104, 116, 116, 112, 115, 58, 47, 47, 100, 114, 118, 46, 120, 47>>,
      \* "http://auth.x"
      <<104, 116, 116, 112, 58, 47, 47, 97, 117, 116, 104, 46, 120>>,
      \* "ftp://auth.x"
      <<102, 116, 112, 58, 47, 47, 97, 117, 116, 104, 46, 120>>,
      \* "https://evil.y"
      <<104, 116, 116, 112, 115, 58, 47, 47, 101, 118, 105, 108, 46, 121>>,
      \* "https://auth.x.evil.y"
      <<104, 116, 116, 112, 115, 58, 47, 47, 97, 117, 116, 104, 46, 120, 46, 101,
        118, 105, 108, 46, 121>>,
      \* "https://auth.x@evil.y"
      <<104, 116, 116, 112, 115, 58, 47, 47, 97, 117, 116, 104, 46, 120, 64, 101,
        118, 105, 108, 46, 121>>,
      \* "https://auth.x:8443"
      <<104, 116, 116, 112, 115, 58, 47, 47, 97, 117, 116, 104, 46, 120, 58, 56, 52,
        52, 51>>,
      \* "not a url"
      <<110, 111, 116, 32, 97, 32, 117, 114, 108>>,
      \* "//auth.x"
      <<47, 47, 97, 117, 116, 104, 46, 120>>,
      \* "https://"
      <<104, 116, 116, 112, 115, 58, 47, 47>>,
      \* "https://driver-service-dy7i.onrender.com"
      <<104, 116, 116, 112, 115, 58, 47, 47, 100, 114, 105, 118, 101, 114, 45, 115,
        101, 114, 118, 105, 99, 101, 45, 100, 121, 55, 105, 46, 111, 110, 114, 101,
        110, 100, 101, 114, 46, 99, 111, 109>> }

ServiceUrls == {Arg(FALSE, <<>>), Arg(TRUE, <<>>)} \cup {Arg(TRUE, u) : u \in ServiceUrlTexts}

\* the values of NEXT_PUBLIC_ALLOWED_API_HOSTS: unset, empty, "auth.x, drv.x,"
HostsEnvs == {Arg(FALSE, <<>>), Arg(TRUE, <<>>), Arg(TRUE, HostsEnvShort)}

NodeEnvs == {"production", "development", "test"}

LibInit ==
    /\ EmbedIdle
    /\ ProcIdle
    /\ WizardIdle
    /\ email = <<>>
    /\ callPhase = "ready"
    /\ callResult = <<>>
    /\ ivLog = <<>>
    /\ idLog = <<>>
    /\ \/ callFn = "codec" /\ callArgs \in CodecInputs
       \/ callFn = "dataUrlToBlob" /\ callArgs \in DataUrls
       \/ /\ callFn = "deriveKey"
          /\ callArgs \in {<<p, s, n>> : p \in DerivePasswords, s \in DeriveSalts,
                                         n \in DeriveIterations}
       \/ /\ callFn = "validateServiceUrl"
          /\ callArgs \in {<<u, "AUTH", e, h>> : u \in ServiceUrls, e \in NodeEnvs,
                                                 h \in HostsEnvs}

libFrame == <<embedVars, procVars, wizardVars, netVars, callFn, callArgs, ivLog, idLog>>

\* arrayBufferToBase64(buffer)
EncodeBuffer ==
    /\ callFn = "codec"
    /\ callPhase = "ready"
    /\ callPhase' = "encoded"
    /\ callResult' = [encoded |-> arrayBufferToBase64(callArgs),
                      decoded |-> [ok |-> FALSE, bytes |-> <<>>]]
    /\ UNCHANGED libFrame

\* base64ToArrayBuffer of what arrayBufferToBase64 returned
DecodeBase64 ==
    /\ callFn = "codec"
    /\ callPhase = "encoded"
    /\ callPhase' = "done"
    /\ callResult' = [callResult EXCEPT !.decoded = base64ToArrayBuffer(callResult.encoded)]
    /\ UNCHANGED libFrame

\* dataUrlToBlob(dataUrl)
ToBlob ==
    /\ callFn = "dataUrlToBlob"
    /\ callPhase = "ready"
    /\ callPhase' = "done"
    /\ callResult' = dataUrlToBlob(callArgs)
    /\ UNCHANGED libFrame

\* await deriveKey(password, salt, iterations)
DeriveKey ==
    /\ callFn = "deriveKey"
    /\ callPhase = "ready"
    /\ callPhase' = "done"
    /\ callResult' = deriveKey(callArgs[1], callArgs[2], callArgs[3])
    /\ UNCHANGED libFrame

\* export const AUTH_SERVICE_BASE = validateServiceUrl(AUTH_SERVICE_URL, 'AUTH')
ValidateUrl ==
    /\ callFn = "validateServiceUrl"
    /\ callPhase = "ready"
    /\ callPhase' = "done"
    /\ callResult' = validateServiceUrl(callArgs[1], callArgs[2], callArgs[3], callArgs[4])
    /\ UNCHANGED libFrame

LibNext ==
    \/ EncodeBuffer
    \/ DecodeBase64
    \/ ToBlob
    \/ DeriveKey
    \/ ValidateUrl

SpecLib == LibInit /\ [][LibNext]_vars

(***************************************************************************)
(* Properties of SpecLib.                                                  *)
(***************************************************************************)
\* C15: decoding what arrayBufferToBase64 produced gives back the bytes,
\* the same number and the same values, for every buffer: the empty one and
\* every byte value from 0 to 255 included.
C15_RoundTrip ==
    (callFn = "codec" /\ callPhase = "done") =>
        /\ callResult.decoded.ok
        /\ Len(callResult.decoded.bytes) = Len(callArgs)
        /\ \A i \in 1..Len(callArgs) : callResult.decoded.bytes[i] = callArgs[i]

\* the buffer holding every byte value has made the round trip
C15_Witness ==
    /\ callFn = "codec"
    /\ callPhase = "done"
    /\ callArgs = AllBytes
    /\ Len(callResult.encoded) = 344
    /\ callResult.decoded.bytes = AllBytes

\* the prefix of a data URL (the text before its first comma) has the form
\* data:<mime>;base64
PrefixWellFormed(prefix) ==
    /\ Len(prefix) >= Len(StrData) + Len(StrSemiBase64)
    /\ SubSeq(prefix, 1, Len(StrData)) = StrData
    /\ SubSeq(prefix, Len(prefix) - Len(StrSemiBase64) + 1, Len(prefix)) = StrSemiBase64

\* the media type such a prefix declares
DeclaredMime(prefix) ==
    SubSeq(prefix, Len(StrData) + 1, Len(prefix) - Len(StrSemiBase64))

\* the payload is base64 text: alphabet characters in groups of four, the
\* last group closed by '=' padding or left two or three characters long
PayloadWellFormed(payload) ==
    LET n    == Len(payload)
        pads == IF n % 4 = 0 /\ n >= 2 /\ payload[n] = 61
                THEN (IF payload[n - 1] = 61 THEN 2 ELSE 1)
                ELSE 0
    IN  /\ (n - pads) % 4 # 1
        /\ \A i \in 1..(n - pads) : payload[i] \in {B64Alphabet[k] : k \in 1..64}

\* C16: dataUrlToBlob returns a blob only for a string of the form
\* data:<mime>;base64,<payload> with a base64 payload, and the blob then
\* carries the declared media type; for every other string it fails.
C16_MalformedRejected ==
    (callFn = "dataUrlToBlob" /\ callPhase = "done" /\ callResult.ok) =>
        LET arr == Split(callArgs, 44)
        IN  /\ Len(arr) >= 2
            /\ PrefixWellFormed(arr[1])
            /\ PayloadWellFormed(arr[2])
            /\ callResult.blob.type = DeclaredMime(arr[1])

\* C17: a key that deriveKey hands back was derived under at least 100 000
\* PBKDF2 iterations, whatever iterations argument the caller passed.
C17_AtLeastMinimumIterations ==
    (callFn = "deriveKey" /\ callPhase = "done" /\ callResult.ok) =>
        callResult.iterations >= 100000

(***************************************************************************)
(* encryptData (src/lib/security/encryption.ts:60-97).                     *)
(***************************************************************************)
\* const IV_LENGTH: 96 bits
IV_LENGTH == 12

\* const TAG_LENGTH, in bits
TAG_LENGTH == 128

\* crypto.getRandomValues(new Uint8Array(n)): the n bytes the generator
\* hands out on its seed-th output
getRandomValues(n, seed) == [i \in 1..n |-> (seed * 83 + i * 29) % 256]

\* crypto.subtle.encrypt under AES-GCM, as far as the package is concerned:
\* as many ciphertext bytes as plaintext bytes, each masked by a key stream
\* that depends on key and iv, then the tag of tagLength bits over key, iv
\* and plaintext
AesGcmEncrypt(key, iv, tagLength, data) ==
    LET stream == Sha256(key \o iv)
    IN  [i \in 1..Len(data) |-> (data[i] + stream[((i - 1) % DigestLen) + 1]) % 256]
            \o SubSeq(Sha256(key \o iv \o data), 1, tagLength \div 8)

\* a faulty encryptData: the IV is a module-level constant, the draw unused
encryptDataFixedIv(data, key, drawn) ==
    LET iv         == [i \in 1..IV_LENGTH |-> 0]
        ciphertext == AesGcmEncrypt(key, iv, TAG_LENGTH, data)
    IN  arrayBufferToBase64(iv \o ciphertext)

\* encryptData(data, key): drawn is what crypto.getRandomValues returned to
\* this call; the package is base64 of IV, then ciphertext with tag
encryptData(data, key, drawn) ==
    LET iv         == drawn
        ciphertext == AesGcmEncrypt(key, iv, TAG_LENGTH, data)
        combined   == iv \o ciphertext
    IN  arrayBufferToBase64(combined)

(***************************************************************************)
(* SpecEncrypt: a sequence of encryptData calls.  The platform's generator *)
(* is taken not to repeat a 96-bit output: every call is handed an output  *)
(* the generator has not handed out before, any of them.                   *)
(***************************************************************************)
\* number of encryptData calls followed
MaxEncryptions == 2

\* number of different outputs the generator can hand out
IvSeeds == 3

\* two raw 256-bit keys
EncKeys == {[i \in 1..32 |-> i], [i \in 1..32 |-> 255 - i]}

\* plaintexts: empty, three bytes, a 4-byte block of extreme values
EncDatas == {<<>>, <<1, 2, 3>>, <<0, 255, 128, 127>>}

EncryptInit ==
    /\ EmbedIdle
    /\ ProcIdle
    /\ WizardIdle
    /\ LibIdle
    /\ email = <<>>

\* await encryptData(data, key)
EncryptData ==
    /\ Len(ivLog) < MaxEncryptions
    /\ \E key \in EncKeys, data \in EncDatas, seed \in 1..IvSeeds :
          /\ \A i \in 1..Len(ivLog) : ivLog[i].seed # seed
          /\ ivLog' = Append(ivLog,
                             [key |-> key, data |-> data, seed |-> seed,
                              drawn |-> getRandomValues(IV_LENGTH, seed),
                              package |-> encryptData(data, key,
                                                      getRandomValues(IV_LENGTH, seed))])
    /\ UNCHANGED <<embedVars, procVars, wizardVars, netVars, callFn, callPhase, callArgs,
                   callResult, idLog>>

EncryptNext == EncryptData

SpecEncrypt == EncryptInit /\ [][EncryptNext]_vars

(***************************************************************************)
(* Properties of SpecEncrypt.                                              *)
(***************************************************************************)
\* the bytes of the package the k-th call returned
PackageBytes(k) == Atob(ivLog[k].package)

\* the IV the k-th package starts with
PackageIv(k) == SubSeq(PackageBytes(k), 1, 12)

\* C14: every encryptData call uses the twelve bytes it drew itself, puts
\* them at the start of its package, ahead of the ciphertext with its
\* 16-byte tag, and no two calls under the same key use the same IV.
C14_FreshIvHeadsPackage ==
    /\ \A k \in 1..Len(ivLog) :
          /\ AtobValid(ivLog[k].package)
          /\ Len(ivLog[k].drawn) = 12
          /\ Len(PackageBytes(k)) = 12 + Len(ivLog[k].data) + 16
          /\ PackageIv(k) = ivLog[k].drawn
          /\ SubSeq(PackageBytes(k), 13, Len(PackageBytes(k)))
                = AesGcmEncrypt(ivLog[k].key, ivLog[k].drawn, 128, ivLog[k].data)
    /\ \A j \in 1..Len(ivLog), k \in 1..Len(ivLog) :
          (j < k /\ ivLog[j].key = ivLog[k].key) => PackageIv(j) # PackageIv(k)

\* the same plaintext was encrypted twice under the same key: two packages
\* with different IVs
C14_Witness ==
    /\ Len(ivLog) = 2
    /\ ivLog[1].key = ivLog[2].key
    /\ ivLog[1].data = <<1, 2, 3>>
    /\ ivLog[2].data = <<1, 2, 3>>
    /\ PackageIv(1) # PackageIv(2)
    /\ ivLog[1].package # ivLog[2].package

(***************************************************************************)
(* SpecIds: a sequence of processDocument calls.  crypto.randomUUID is     *)
(* taken not to repeat an identifier: every call is handed one the         *)
(* generator has not handed out before, any of them; the clock is read     *)
(* freely.                                                                 *)
(***************************************************************************)
\* number of processDocument calls followed
MaxCalls == 2

\* the identifiers the generator can hand out: as many as there are calls
IdSeeds == MaxCalls

\* a JPEG whose bytes are no raster
BrokenJpg == File(NameJpg, MimeJpeg, <<1, 2, 3>>)

IdFiles == {ScanPng, ScanPdf, NoteTxt, BrokenJpg}

IdClock == {0, 59999}

IdsInit ==
    /\ EmbedIdle
    /\ ProcIdle
    /\ WizardIdle
    /\ LibIdle
    /\ email = <<>>

\* await processDocument(file, options); the log keeps what the call
\* returned and the metadata it built
CallAndLog ==
    /\ Len(idLog) < MaxCalls
    /\ \E file \in IdFiles, uuid \in 1..IdSeeds, now \in IdClock :
          /\ \A k \in 1..Len(idLog) : idLog[k].uuid # uuid
          /\ LET r == processDocument(file, Options(EmailJo, "drivingLicense",
                                                    "undefined", "undefined"),
                                      uuid, now, NoEnv)
             IN  idLog' = Append(idLog,
                                 [uuid |-> uuid, now |-> now, type |-> file.type,
                                  settled |-> r.settled,
                                  watermarkId |-> r.watermarkId,
                                  processedAt |-> r.processedAt,
                                  metadata |-> r.metadata])
    /\ UNCHANGED <<embedVars, procVars, wizardVars, netVars, callFn, callPhase, callArgs,
                   callResult, ivLog>>

IdsNext == CallAndLog

SpecIds == IdsInit /\ [][IdsNext]_vars

(***************************************************************************)
(* Properties of SpecIds.                                                  *)
(***************************************************************************)
\* the value object obj holds under key; <<>> when the key is absent
ValueOf(obj, key) ==
    IF \E i \in 1..Len(obj) : obj[i].key = key
    THEN obj[CHOOSE i \in 1..Len(obj) : obj[i].key = key].value
    ELSE <<>>

\* C18: every document processDocument returns carries a non-empty
\* watermarkId that is the sessionId of the metadata built for that same
\* document, and a processedAt that is that metadata's timestamp; and no
\* two documents returned over a sequence of calls share a watermarkId.
C18_FreshSessionPerCall ==
    /\ \A k \in 1..Len(idLog) :
          idLog[k].settled = "resolved" =>
              /\ idLog[k].watermarkId # <<>>
              /\ idLog[k].metadata # <<>>
              /\ idLog[k].watermarkId = ValueOf(idLog[k].metadata, KeySessionId)
              /\ idLog[k].processedAt # <<>>
              /\ idLog[k].processedAt = ValueOf(idLog[k].metadata, KeyTimestamp)
    /\ \A j \in 1..Len(idLog), k \in 1..Len(idLog) :
          (j < k /\ idLog[j].settled = "resolved" /\ idLog[k].settled = "resolved") =>
              idLog[j].watermarkId # idLog[k].watermarkId

\* an image and a PDF were processed at the same reading of the clock:
\* equal processedAt, different watermarkId
C18_Witness ==
    /\ Len(idLog) = 2
    /\ idLog[1].settled = "resolved" /\ idLog[1].type = MimePng
    /\ idLog[2].settled = "resolved" /\ idLog[2].type = MimePdf
    /\ idLog[1].processedAt = idLog[2].processedAt
    /\ idLog[1].watermarkId # idLog[2].watermarkId

(***************************************************************************)
(* Properties of validateServiceUrl under SpecLib.                         *)
(***************************************************************************)

\* C19: in production validateServiceUrl returns exactly when the variable
\* is set, parses as a URL, has the protocol https: and a hostname on the
\* whitelist, and throws otherwise; what it returns is that URL without a
\* trailing slash, itself an https URL of a whitelisted host.
C19_ProductionHttpsWhitelistOnly ==
    (callFn = "validateServiceUrl" /\ callPhase = "done" /\ callArgs[3] = "production") =>
        LET urlStr == callArgs[1]
            url    == ParseUrl(urlStr.value)
            hosts  == ALLOWED_HOSTS(callArgs[4])
            good   == /\ urlStr.given
                      /\ urlStr.value # <<>>
                      /\ url.ok
                      /\ url.protocol = <<104, 116, 116, 112, 115, 58>>
                      /\ url.hostname \in hosts
        IN  /\ callResult.threw = ~good
            /\ ~callResult.threw =>
                  /\ callResult.value = StripSlash(url.href)
                  /\ ParseUrl(callResult.value).ok
                  /\ ParseUrl(callResult.value).protocol = <<104, 116, 116, 112, 115, 58>>
                  /\ ParseUrl(callResult.value).hostname \in hosts

\* in production, under the whitelist "auth.x, drv.x,", the variable
\* "HTTPS://AUTH.X/api/" was accepted and returned as "https://auth.x/api"
C19_Witness ==
    /\ callFn = "validateServiceUrl"
    /\ callPhase = "done"
    /\ callArgs[3] = "production"
    /\ callArgs[1] = Arg(TRUE, UrlUpperPath)
    /\ callArgs[4] = Arg(TRUE, HostsEnvShort)
    /\ ALLOWED_HOSTS(callArgs[4]) =
          {<<97, 117, 116, 104, 46, 120>>, <<100, 114, 118, 46, 120>>}
    /\ ~callResult.threw
    /\ callResult.value =
          <<104, 116, 116, 112, 115, 58, 47, 47, 97, 117, 116, 104, 46, 120, 47, 97, 112, 105>>

(***************************************************************************)
(* Capacity of the reserved region, under SpecProc.                        *)
(***************************************************************************)
\* bitIndex when the loop of applyInvisibleWatermark is left: one bit per
\* RGBA pixel of data, as long as pixels and bits remain
EmbedLoopBits(data, binary) == Min2((Len(data) + 3) \div 4, Len(binary))

\* C20: for every image that applyWatermark turns into a result, the loop
\* of applyInvisibleWatermark is left with bitIndex = B, every bit of the
\* serialised metadata written, and never because the region ran out of
\* pixels.
C20_AllBitsWritten ==
    (pPhase = "settled" /\ pResult.settled = "resolved" /\ IsImageType(pFile.type)) =>
        LET binary == textToBinary(JsonStringify(pResult.metadata))
            rs     == regionSize(pResult.drawn.width, pResult.drawn.height)
            region == getImageData(pResult.drawn, pResult.drawn.width - rs,
                                   pResult.drawn.height - rs, rs, rs)
        IN  EmbedLoopBits(region.data, binary) = Len(binary)

(***************************************************************************)
(* Geometry of the reserved region, under SpecEmbed.                       *)
(***************************************************************************)
\* image sides beyond the canvases that are embedded into: around the cap
SideSamples == {9, 10, 999, 1000, 1010}

\* min(100, floor(0.1 * width), floor(0.1 * height)), in integers
TenthSide(width, height) ==
    LET a == CHOOSE k \in 0..width : 10 * k <= width /\ width < 10 * (k + 1)
        b == CHOOSE k \in 0..height : 10 * k <= height /\ height < 10 * (k + 1)
    IN  IF a <= b /\ a <= 100 THEN a ELSE IF b <= 100 THEN b ELSE 100

\* C21: the region applyInvisibleWatermark reads and writes back is the
\* square of side min(100, floor(0.1*width), floor(0.1*height)) whose far
\* corner is the image's bottom-right corner; the rectangle lies inside the
\* image, and no byte outside it differs after the call.
C21_RegionInsideImage ==
    LET w    == ePre.width
        h    == ePre.height
        rs   == regionSize(w, h)
        side == TenthSide(w, h)
    IN  /\ (ePhase = "ready") =>
              \A a \in SideSamples, b \in SideSamples :
                  /\ regionSize(a, b) = TenthSide(a, b)
                  /\ a - regionSize(a, b) >= 0
                  /\ b - regionSize(a, b) >= 0
        /\ (ePhase \in {"ready", "done", "threw"}) =>
              /\ rs = side
              /\ w - rs >= 0 /\ (w - rs) + rs = w
              /\ h - rs >= 0 /\ (h - rs) + rs = h
              /\ \A j \in 1..Len(ePre.data) :
                    eCanvas.data[j] # ePre.data[j] =>
                        /\ ((j - 1) \div 4) % w >= w - side
                        /\ ((j - 1) \div 4) \div w >= h - side

\* a 50 x 30 canvas: the region is the 3 x 3 square at the bottom right, and
\* the call changed a byte of it
C21_Witness ==
    /\ ePhase = "done"
    /\ ePre.width = 50
    /\ ePre.height = 30
    /\ regionSize(ePre.width, ePre.height) = 3
    /\ \E j \in 1..Len(ePre.data) : eCanvas.data[j] # ePre.data[j]

(***************************************************************************)
(* What processDocument hands to its caller, under SpecProc.               *)
(***************************************************************************)
\* the properties of the object literal processDocument returns
\* (part_013:181-187 for a PDF, 194-201 for an image); r.metadata, r.drawn,
\* r.canvas and r.steps of the model record what the call built, they are
\* no properties of the returned ProcessedDocument
ProcessedDocumentKeys(r) ==
    IF r.settled # "resolved" THEN {}
    ELSE IF r.hasMetadataHash
    THEN {"blob", "originalName", "mimeType", "metadataHash", "watermarkId", "processedAt"}
    ELSE {"blob", "originalName", "mimeType", "watermarkId", "processedAt"}

\* C22: the result processDocument returns for a PDF carries the metadata
\* object applyPdfWatermark built and the flag that server-side
\* watermarking is required.
C22_PdfDeferralReachesCaller ==
    (pPhase = "settled" /\ pFile.type = MimePdf /\ pResult.settled = "resolved") =>
        /\ pResult.metadata # <<>>
        /\ "metadata" \in ProcessedDocumentKeys(pResult)
        /\ "requiresServerProcessing" \in ProcessedDocumentKeys(pResult)

(***************************************************************************)
(* SpecOtp: the wizard at its e-mail and code steps, with the client-side  *)
(* rate limit of lib/config/api.tsx and the StepOTPVerification component. *)
(* Time is the variable clock; the 100 ms and 300 ms timeouts fire at some *)
(* later moment, the 60 000 ms ones no earlier than they are due.          *)
(***************************************************************************)
\* Date.now(), which is never 0 in a browser: the clock of the model counts
\* the milliseconds from the one before the page was loaded
DateNow == clock + 1

\* a faulty checkRateLimit: a refused call restarts the window
checkRateLimitRestart(map, action, limitMs, now) ==
    LET has      == action \in DOMAIN map
        lastCall == IF has THEN map[action] ELSE 0
    IN  [granted |-> ~(has /\ lastCall # 0 /\ now - lastCall < limitMs),
         map |-> [a \in DOMAIN map \cup {action} |-> IF a = action THEN now ELSE map[a]]]

\* checkRateLimit(action, limitMs) at the time now, on the map given: what it
\* returns and the map it leaves
checkRateLimit(map, action, limitMs, now) ==
    LET has      == action \in DOMAIN map
        lastCall == IF has THEN map[action] ELSE 0
    IN  IF has /\ lastCall # 0 /\ now - lastCall < limitMs
        THEN [granted |-> FALSE, map |-> map]
        ELSE [granted |-> TRUE,
              map |-> [a \in DOMAIN map \cup {action} |->
                         IF a = action THEN now ELSE map[a]]]

\* validateOTP(otp).isValid
validateOTP(code) ==
    LET cleaned == Trim(code)
    IN  /\ cleaned # <<>>
        /\ Len(cleaned) = 5
        /\ \A i \in 1..Len(cleaned) : cleaned[i] \in 48..57

\* STEP_ORDER.indexOf(currentStep), counted from 1
StepIndex(step) == CHOOSE i \in 1..Len(STEP_ORDER) : STEP_ORDER[i] = step

MaxWindows == 1
MaxChecks == 3
MaxVerifies == 2

\* the moments the model looks at: the first and the last millisecond of
\* each rate-limit window
Times == {k * 60000 + e : k \in 0..MaxWindows, e \in {0, 59999}}

RateActions == {"otp-send", "login"}
RateLimits == {60000, 1000}
OtpValues == {<<49, 50, 51, 52>>, <<49, 50, 51, 52, 53>>}

OtpInit ==
    /\ EmbedIdle
    /\ ProcIdle
    /\ LibIdle
    /\ WizardRest
    /\ currentStep = STEP_ORDER[1]
    /\ registrationToken = FALSE
    /\ email = <<>>

\* the variables the actions of SpecOtp write, as a record
Wz ==
    [currentStep |-> currentStep, registrationToken |-> registrationToken,
     email |-> email, isLoading |-> isLoading, error |-> error, isOpen |-> isOpen,
     resetTimer |-> resetTimer, clock |-> clock, otp |-> otp,
     isResending |-> isResending, canResendOtp |-> canResendOtp,
     rateLimitMap |-> rateLimitMap, verifyTimers |-> verifyTimers,
     resendTimers |-> resendTimers, inFlight |-> inFlight, sendLog |-> sendLog,
     verifyLog |-> verifyLog, rlLog |-> rlLog]

\* the step to the state r of those variables; the rest stays
Becomes(r) ==
    /\ currentStep' = r.currentStep
    /\ registrationToken' = r.registrationToken
    /\ email' = r.email
    /\ isLoading' = r.isLoading
    /\ error' = r.error
    /\ isOpen' = r.isOpen
    /\ resetTimer' = r.resetTimer
    /\ clock' = r.clock
    /\ otp' = r.otp
    /\ isResending' = r.isResending
    /\ canResendOtp' = r.canResendOtp
    /\ rateLimitMap' = r.rateLimitMap
    /\ verifyTimers' = r.verifyTimers
    /\ resendTimers' = r.resendTimers
    /\ inFlight' = r.inFlight
    /\ sendLog' = r.sendLog
    /\ verifyLog' = r.verifyLog
    /\ rlLog' = r.rlLog
    /\ UNCHANGED <<embedVars, procVars, libVars, mwVars, reqVars, documents, isProcessingDocs,
                   processingProgress, hPc, hEmail, docEntries, docIndex, processedDocs,
                   processed, pending, outcome, calls, submissions, picks, requests,
                   uuidCount>>

\* the entry of rlLog for a call
Checked(action, limitMs, r) ==
    [action |-> action, limitMs |-> limitMs, now |-> DateNow, granted |-> r.granted,
     before |-> rateLimitMap, after |-> r.map]

Without(seq, i) == SubSeq(seq, 1, i - 1) \o SubSeq(seq, i + 1, Len(seq))

\* time passes
Tick ==
    \E t \in Times :
       /\ t > clock
       /\ Becomes([Wz EXCEPT !.clock = t])

\* some other caller of the exported checkRateLimit
OtherCheck ==
    /\ Len(rlLog) < MaxChecks
    /\ \E action \in RateActions, limitMs \in RateLimits :
          LET r == checkRateLimit(rateLimitMap, action, limitMs, DateNow)
          IN  Becomes([Wz EXCEPT !.rateLimitMap = r.map,
                                 !.rlLog = Append(rlLog, Checked(action, limitMs, r))])

\* StepEmailName: the fields (disabled while isLoading) are filled in
TypeEmail ==
    /\ isOpen /\ currentStep = "email-name" /\ ~isLoading
    /\ email # EmailJo
    /\ Becomes([Wz EXCEPT !.email = EmailJo])

\* StepEmailName handleSubmit with valid fields, then handleEmailNameNext up
\* to its await
EmailNameNext ==
    /\ isOpen /\ currentStep = "email-name" /\ ~isLoading
    /\ email # <<>>
    /\ Len(rlLog) < MaxChecks
    /\ LET r == checkRateLimit(rateLimitMap, "otp-send", 60000, DateNow)
           w == [Wz EXCEPT !.rateLimitMap = r.map,
                           !.rlLog = Append(rlLog, Checked("otp-send", 60000, r))]
       IN  IF ~r.granted
           THEN Becomes([w EXCEPT
                   !.error = "Please wait before requesting another verification code",
                   !.isLoading = FALSE])
           ELSE Becomes([w EXCEPT
                   !.isLoading = TRUE,
                   !.error = "none",
                   !.sendLog = Append(sendLog, DateNow),
                   !.inFlight = Append(inFlight,
                                   [kind |-> "send", otp |-> <<>>,
                                    stepIndex |-> StepIndex(currentStep)])])

\* goToNextStep of the render whose currentStepIndex is i - 1
goToNextStep(w, i) ==
    IF i + 1 <= Len(STEP_ORDER)
    THEN [w EXCEPT !.currentStep = STEP_ORDER[i + 1], !.error = "none"]
    ELSE w

\* goToPreviousStep of the render whose currentStepIndex is i - 1
goToPreviousStep(w, i) ==
    IF i - 1 >= 1
    THEN [w EXCEPT !.currentStep = STEP_ORDER[i - 1], !.error = "none"]
    ELSE w

\* sendOTP resolved for handleEmailNameNext or handleOTPResend
SendResolved ==
    \E k \in 1..Len(inFlight) :
       LET h == inFlight[k]
           w == [Wz EXCEPT !.inFlight = Without(inFlight, k),
                           !.canResendOtp = FALSE,
                           !.resendTimers = resendTimers \cup {clock + 60000}]
       IN  \/ /\ h.kind = "send"
              /\ Becomes([goToNextStep(w, h.stepIndex) EXCEPT !.isLoading = FALSE])
           \/ /\ h.kind = "resend"
              /\ Becomes([w EXCEPT !.otp = <<>>, !.isResending = FALSE])

\* sendOTP rejected
SendRejected ==
    \E k \in 1..Len(inFlight) :
       LET h == inFlight[k]
           w == [Wz EXCEPT !.inFlight = Without(inFlight, k),
                           !.error = "Failed to send verification code"]
       IN  \/ /\ h.kind = "send"
              /\ Becomes([w EXCEPT !.isLoading = FALSE])
           \/ /\ h.kind = "resend"
              /\ Becomes([w EXCEPT !.isResending = FALSE])

\* a setCanResendOtp(true) timeout fires
ResendAllowed ==
    \E due \in resendTimers :
       /\ clock >= due
       /\ Becomes([Wz EXCEPT !.canResendOtp = TRUE,
                             !.resendTimers = resendTimers \ {due}])

\* the resend link of StepOTPVerification (shown when canResend, disabled
\* while isResending): handleOTPResend up to its await
OTPResend ==
    /\ isOpen /\ currentStep = "otp-verification"
    /\ canResendOtp /\ ~isResending
    /\ Len(rlLog) < MaxChecks
    /\ LET r == checkRateLimit(rateLimitMap, "otp-send", 60000, DateNow)
           w == [Wz EXCEPT !.rateLimitMap = r.map,
                           !.rlLog = Append(rlLog, Checked("otp-send", 60000, r))]
       IN  IF ~r.granted
           THEN Becomes([w EXCEPT
                   !.error = "Please wait before requesting another verification code",
                   !.isResending = FALSE])
           ELSE Becomes([w EXCEPT
                   !.isResending = TRUE,
                   !.error = "none",
                   !.sendLog = Append(sendLog, DateNow),
                   !.inFlight = Append(inFlight,
                                   [kind |-> "resend", otp |-> <<>>,
                                    stepIndex |-> StepIndex(currentStep)])])

\* InputOTP onChange (disabled while isLoading): handleOTPComplete(value).
\* The timeout it arms calls the onVerify of the render that made this
\* handler, which holds the otp of before the change.
OTPComplete ==
    /\ isOpen /\ currentStep = "otp-verification" /\ ~isLoading
    /\ \E value \in OtpValues :
          /\ value # otp
          /\ IF validateOTP(value) /\ Len(value) = 5
             THEN /\ Len(verifyTimers) + Len(verifyLog) < MaxVerifies
                  /\ Becomes([Wz EXCEPT
                        !.otp = value,
                        !.verifyTimers = Append(verifyTimers,
                                            [otp |-> otp,
                                             stepIndex |-> StepIndex(currentStep)])])
             ELSE Becomes([Wz EXCEPT !.otp = value])

\* handleOTPVerify of a render, up to its await
handleOTPVerify(w, closure) ==
    [w EXCEPT !.isLoading = TRUE,
              !.error = "none",
              !.verifyLog = Append(w.verifyLog, closure.otp),
              !.inFlight = Append(w.inFlight,
                              [kind |-> "verify", otp |-> closure.otp,
                               stepIndex |-> closure.stepIndex])]

\* the form of StepOTPVerification is submitted (its button is disabled while
\* isLoading or with fewer than 5 characters): handleSubmit, then onVerify
OTPSubmit ==
    /\ isOpen /\ currentStep = "otp-verification" /\ ~isLoading
    /\ Len(otp) = 5
    /\ validateOTP(otp)
    /\ Len(verifyTimers) + Len(verifyLog) < MaxVerifies
    /\ Becomes(handleOTPVerify(Wz, [otp |-> otp, stepIndex |-> StepIndex(currentStep)]))

\* an auto-submit timeout fires, 100 ms after it was armed: nothing clears
\* it, and nothing is tested before onVerify is called
AutoSubmit ==
    /\ verifyTimers # <<>>
    /\ Becomes(handleOTPVerify([Wz EXCEPT !.verifyTimers = Tail(verifyTimers)],
                               Head(verifyTimers)))

\* verifyOTP resolved with a registration token
VerifyResolved ==
    \E k \in 1..Len(inFlight) :
       LET h == inFlight[k]
           w == [Wz EXCEPT !.inFlight = Without(inFlight, k),
                           !.registrationToken = TRUE]
       IN  /\ h.kind = "verify"
           /\ Becomes([goToNextStep(w, h.stepIndex) EXCEPT !.isLoading = FALSE])

\* verifyOTP resolved without a token, or rejected
VerifyFailed ==
    \E k \in 1..Len(inFlight) :
       /\ inFlight[k].kind = "verify"
       /\ \E message \in {"Verification successful but no token received. Please try again.",
                          "Invalid or expired verification code"} :
             Becomes([Wz EXCEPT !.inFlight = Without(inFlight, k),
                                !.error = message,
                                !.isLoading = FALSE])

\* the back button of StepOTPVerification (disabled while isLoading)
OTPBack ==
    /\ isOpen /\ currentStep = "otp-verification" /\ ~isLoading
    /\ Becomes(goToPreviousStep(Wz, StepIndex(currentStep)))

\* the parent opens the dialog again: the cleanup of the reset effect clears
\* its timeout
Reopen ==
    /\ ~isOpen
    /\ Becomes([Wz EXCEPT !.isOpen = TRUE, !.resetTimer = FALSE])

OtpNext ==
    \/ Tick
    \/ TypeEmail
    \/ EmailNameNext
    \/ SendResolved
    \/ SendRejected
    \/ ResendAllowed
    \/ OTPResend
    \/ OTPComplete
    \/ OTPSubmit
    \/ AutoSubmit
    \/ VerifyResolved
    \/ VerifyFailed
    \/ OTPBack
    \/ Close
    \/ ResetElapsed
    \/ Reopen

SpecOtp == OtpInit /\ [][OtpNext]_vars

\* the callers of checkRateLimit alone: the two handlers that send a code,
\* and any other caller
RateNext ==
    \/ Tick
    \/ OtherCheck
    \/ TypeEmail
    \/ EmailNameNext
    \/ SendResolved
    \/ SendRejected
    \/ ResendAllowed
    \/ OTPResend
    \/ OTPBack

SpecRate == OtpInit /\ [][RateNext]_vars

(***************************************************************************)
(* Properties of SpecRate.                                                 *)
(***************************************************************************)
\* C23: two calls of checkRateLimit on one action that both return true are
\* at least the limit apart; a call that returns false leaves the map as it
\* was; no call changes the entry of another action; and so the two
\* handlers that share the key 'otp-send' call sendOTP at most once per
\* 60 000 ms.
C23_RateLimited ==
    /\ \A j \in 1..Len(rlLog) : \A i \in 1..(j - 1) :
          (rlLog[i].granted /\ rlLog[j].granted /\ rlLog[i].action = rlLog[j].action)
              => rlLog[j].now - rlLog[i].now >= rlLog[j].limitMs
    /\ \A i \in 1..Len(rlLog) :
          /\ ~rlLog[i].granted => rlLog[i].after = rlLog[i].before
          /\ rlLog[i].granted =>
                /\ rlLog[i].action \in DOMAIN rlLog[i].after
                /\ rlLog[i].after[rlLog[i].action] = rlLog[i].now
          /\ \A a \in RateActions \ {rlLog[i].action} :
                /\ (a \in DOMAIN rlLog[i].after) = (a \in DOMAIN rlLog[i].before)
                /\ a \in DOMAIN rlLog[i].before => rlLog[i].after[a] = rlLog[i].before[a]
    /\ \A j \in 1..Len(sendLog) : \A i \in 1..(j - 1) : sendLog[j] - sendLog[i] >= 60000

\* the wizard sent a code, was refused a second one inside the window, and
\* sent one when the window was over
C23_Witness ==
    /\ Len(sendLog) = 2
    /\ \E i \in 1..Len(rlLog) :
          /\ ~rlLog[i].granted
          /\ rlLog[i].action = "otp-send"
          /\ rlLog[i].limitMs = 60000
          /\ rlLog[i].now - sendLog[1] = 59999

(***************************************************************************)
(* SpecMw: the rate limit of the middleware (src/unnamed/part_011).        *)
(***************************************************************************)
RATE_LIMIT_WINDOW == 60000

RATE_LIMIT_MAX_REQUESTS == 100

\* RATE_LIMIT_STRICT_ENDPOINTS['/api']
RATE_LIMIT_API == 30

CleanupInterval == 300000

StrUnknown ==
    <<117, 110, 107, 110, 111, 119, 110>>

\* "/api"
StrApi ==
    <<47, 97, 112, 105>>

StartsWith(s, prefix) ==
    Len(s) >= Len(prefix) /\ SubSeq(s, 1, Len(prefix)) = prefix

\* a faulty checkRateLimit of the middleware: one request too many
checkRateLimitMwLate(map, identifier, max, now) ==
    IF identifier \notin DOMAIN map \/ now > map[identifier].resetTime
    THEN [allowed |-> TRUE,
          map |-> [i \in DOMAIN map \cup {identifier} |->
                     IF i = identifier
                     THEN [count |-> 1, resetTime |-> now + RATE_LIMIT_WINDOW]
                     ELSE map[i]]]
    ELSE IF map[identifier].count > max
    THEN [allowed |-> FALSE, map |-> map]
    ELSE [allowed |-> TRUE,
          map |-> [map EXCEPT ![identifier].count = map[identifier].count + 1]]

\* checkRateLimit(identifier, max) of the middleware at the time now, on the
\* map given: what it returns and the map it leaves
checkRateLimitMw(map, identifier, max, now) ==
    IF identifier \notin DOMAIN map \/ now > map[identifier].resetTime
    THEN [allowed |-> TRUE,
          map |-> [i \in DOMAIN map \cup {identifier} |->
                     IF i = identifier
                     THEN [count |-> 1, resetTime |-> now + RATE_LIMIT_WINDOW]
                     ELSE map[i]]]
    ELSE IF map[identifier].count >= max
    THEN [allowed |-> FALSE, map |-> map]
    ELSE [allowed |-> TRUE,
          map |-> [map EXCEPT ![identifier].count = map[identifier].count + 1]]

\* the client identifier the middleware takes from the headers
clientIp(forwardedFor, realIp) ==
    LET first == IF forwardedFor.given THEN Trim(Split(forwardedFor.value, 44)[1])
                 ELSE <<>>
    IN  IF first # <<>> THEN first
        ELSE IF realIp.given /\ realIp.value # <<>> THEN realIp.value
        ELSE StrUnknown

\* the limit the middleware applies to a path
rateLimitOf(pathname) ==
    IF StartsWith(pathname, StrApi) THEN RATE_LIMIT_API ELSE RATE_LIMIT_MAX_REQUESTS

MaxIntervals == 1
MaxOtherRequests == 1

\* the moments the model looks at: the load of the module, the end of a
\* window opened then, the millisecond after, and each run of the cleanup
MwTimes == {0, RATE_LIMIT_WINDOW, RATE_LIMIT_WINDOW + 1}
           \cup {k * CleanupInterval : k \in 1..MaxIntervals}

\* "1.1.1.1, 10.0.0.1"
XffChain ==
    <<49, 46, 49, 46, 49, 46, 49, 44, 32, 49, 48, 46, 48, 46, 48, 46, 49>>

IpMain == Trim(Split(XffChain, 44)[1])

\* the requests: [x-forwarded-for, x-real-ip, pathname]
MwRequests ==
    {[forwardedFor |-> Arg(TRUE, XffChain), realIp |-> Arg(FALSE, <<>>), pathname |-> <<47>>],
     [forwardedFor |-> Arg(TRUE, XffChain), realIp |-> Arg(TRUE, <<50, 46, 50, 46, 50, 46, 50>>),
      pathname |-> <<47, 97, 112, 105, 47, 111, 116, 112>>],
     [forwardedFor |-> Arg(TRUE, <<32>>), realIp |-> Arg(TRUE, <<50, 46, 50, 46, 50, 46, 50>>),
      pathname |-> <<47, 97, 112, 105, 97, 114, 121>>]}

MwInit ==
    /\ EmbedIdle
    /\ ProcIdle
    /\ LibIdle
    /\ WizardIdle
    /\ email = <<>>

mwFrame == <<embedVars, procVars, libVars, wizardVars, otp, isResending, canResendOtp,
             rateLimitMap, verifyTimers, resendTimers, inFlight, sendLog, verifyLog, rlLog,
             reqVars>>

\* time passes on the server
MwTick ==
    /\ \E t \in MwTimes : t > mwClock /\ mwClock' = t
    /\ UNCHANGED <<mwFrame, mwMap, mwSweeps, mwWindow, mwLast, mwOthers>>

\* middleware(request), as far as the rate limit: the status of the answer
Middleware ==
    \E request \in MwRequests :
       LET identifier == clientIp(request.forwardedFor, request.realIp)
           rateLimit  == rateLimitOf(request.pathname)
           r          == checkRateLimitMw(mwMap, identifier, rateLimit, mwClock)
           status     == IF r.allowed THEN 200 ELSE 429
           let        == IF r.allowed THEN 1 ELSE 0
           \* the window of the claim: 60 000 ms from the request that opened it
           inWindow   == /\ identifier \in DOMAIN mwWindow
                         /\ mwClock - mwWindow[identifier].openedAt <= RATE_LIMIT_WINDOW
           window     == IF inWindow
                         THEN [mwWindow[identifier] EXCEPT !.let = @ + let]
                         ELSE [openedAt |-> mwClock, let |-> let]
       IN  /\ identifier # IpMain => mwOthers < MaxOtherRequests
           /\ mwOthers' = IF identifier # IpMain THEN mwOthers + 1 ELSE mwOthers
           /\ mwMap' = r.map
           /\ mwWindow' = [i \in DOMAIN mwWindow \cup {identifier} |->
                             IF i = identifier THEN window ELSE mwWindow[i]]
           /\ mwLast' = [identifier |-> identifier, rateLimit |-> rateLimit, now |-> mwClock,
                         status |-> status, opened |-> ~inWindow, let |-> window.let,
                         before |-> mwMap, after |-> r.map]
           /\ UNCHANGED <<mwFrame, mwClock, mwSweeps>>

\* cleanupRateLimits, run by setInterval every 300 000 ms
CleanupRateLimits ==
    /\ mwSweeps < mwClock \div CleanupInterval
    /\ mwSweeps' = mwSweeps + 1
    /\ mwMap' = [i \in {k \in DOMAIN mwMap : ~(mwClock > mwMap[k].resetTime)} |-> mwMap[i]]
    /\ UNCHANGED <<mwFrame, mwClock, mwWindow, mwLast, mwOthers>>

MwNext ==
    \/ MwTick
    \/ Middleware
    \/ CleanupRateLimits

SpecMw == MwInit /\ [][MwNext]_vars

\* C24: for each client identifier, within one window (60 000 ms from the
\* request that opened it) the middleware lets through at most the maximum
\* that applies, 100 and 30 for the paths that start with /api; it answers
\* every further request with 429 and leaves the count as it was; the first
\* request after the window has expired opens a window with count 1.
C24_WindowedLimit ==
    /\ \A i \in DOMAIN mwWindow : mwWindow[i].let <= RATE_LIMIT_MAX_REQUESTS
    /\ mwLast # <<>> =>
          LET i == mwLast.identifier
          IN  /\ mwLast.status \in {200, 429}
              /\ \A k \in (DOMAIN mwLast.before \cup DOMAIN mwLast.after) \ {i} :
                    /\ k \in DOMAIN mwLast.before /\ k \in DOMAIN mwLast.after
                    /\ mwLast.after[k] = mwLast.before[k]
              /\ mwLast.status = 200 =>
                    /\ mwLast.let <= mwLast.rateLimit
                    /\ mwLast.after[i].count = mwLast.let
              /\ mwLast.status = 429 =>
                    /\ ~mwLast.opened
                    /\ mwLast.let >= mwLast.rateLimit
                    /\ mwLast.after = mwLast.before
              /\ mwLast.opened =>
                    /\ mwLast.status = 200
                    /\ mwLast.let = 1
                    /\ mwLast.after[i] = [count |-> 1,
                                          resetTime |-> mwLast.now + RATE_LIMIT_WINDOW]

\* a client was let through 30 times on /api paths and 70 times on others
\* inside one window, was then refused with 429, and was let through again
\* when the window had expired
C24_Witness ==
    /\ mwLast # <<>>
    /\ mwLast.identifier = IpMain
    /\ mwLast.opened
    /\ mwLast.now > RATE_LIMIT_WINDOW
    /\ mwLast.identifier \in DOMAIN mwLast.before
    /\ mwLast.before[IpMain].count = RATE_LIMIT_MAX_REQUESTS

(***************************************************************************)
(* SpecReq: one call of a request function of src/lib/config/api.tsx: the  *)
(* timeout of createTimeoutController against fetch and the reading of the *)
(* body.                                                                   *)
(***************************************************************************)
REQUEST_TIMEOUT == 30000

\* createTimeoutController(60000) of registerDriver and registerDriverJSON
RegistrationTimeout == 60000

RequestFunctions ==
    {"fetchVehicleCategories", "fetchVehicleTypesByCategory", "fetchVehicleTypes",
     "sendOTP", "verifyOTP", "registerDriver", "registerDriverJSON",
     "checkEmailAvailability"}

\* the argument each function passes to createTimeoutController
TimeoutOf(fn) ==
    IF fn \in {"registerDriver", "registerDriverJSON"} THEN RegistrationTimeout
    ELSE REQUEST_TIMEOUT

Refused(name, status, cause) ==
    [settled |-> "rejected", error |-> name, status |-> status, cause |-> cause]

\* the catch block of a request function, for what fetch rejected with
CatchOf(fn, name, cause) ==
    IF fn = "checkEmailAvailability"
    THEN Refused(name, 0, cause)
    ELSE IF name = "AbortError" THEN Refused("ApiError", 408, cause)
    ELSE Refused(name, 0, cause)

\* the moments the model looks at
ReqTimes == {0, REQUEST_TIMEOUT - 1, REQUEST_TIMEOUT, RegistrationTimeout - 1,
             RegistrationTimeout}

\* the statuses the service answers with
ReqStatuses == {200, 404, 500}

ReqInit ==
    /\ EmbedIdle
    /\ ProcIdle
    /\ LibIdle
    /\ WizardIdle
    /\ email = <<>>

reqFrame == <<embedVars, procVars, libVars, wizardVars, otp, isResending, canResendOtp,
              rateLimitMap, verifyTimers, resendTimers, inFlight, sendLog, verifyLog, rlLog,
              mwVars>>

\* the function is called: createTimeoutController arms its timeout, fetch
\* is started with the controller's signal
CallRequest ==
    /\ reqPhase = "idle"
    /\ \E fn \in RequestFunctions :
          /\ reqFn' = fn
          /\ reqTimer' = [armed |-> TRUE, due |-> reqClock + TimeoutOf(fn)]
    /\ reqPhase' = "fetching"
    /\ UNCHANGED <<reqFrame, reqStatus, reqClock, reqResult>>

\* time passes
ReqTick ==
    /\ \E t \in ReqTimes : t > reqClock /\ reqClock' = t
    /\ UNCHANGED <<reqFrame, reqFn, reqPhase, reqStatus, reqTimer, reqResult>>

\* fetch resolves: the status line and the headers have arrived;
\* handleResponse is called and starts to read the body
FetchResolved ==
    /\ reqPhase = "fetching"
    /\ \E status \in ReqStatuses : reqStatus' = status
    /\ reqPhase' = "reading"
    /\ UNCHANGED <<reqFrame, reqFn, reqTimer, reqClock, reqResult>>

\* fetch rejects for a reason of the network: the catch block rethrows
FetchFailed ==
    /\ reqPhase = "fetching"
    /\ reqResult' = CatchOf(reqFn, "TypeError", "network")
    /\ reqPhase' = "settled"
    /\ UNCHANGED <<reqFrame, reqFn, reqStatus, reqTimer, reqClock>>

\* response.json() settles. The promise of handleResponse is returned, not
\* awaited, so the catch block of the function does not see its rejection.
BodyRead ==
    /\ reqPhase = "reading"
    /\ \E json \in BOOLEAN :
          reqResult' =
             IF reqStatus # 200 THEN Refused("ApiError", reqStatus, "status")
             ELSE IF json THEN [settled |-> "resolved", error |-> "none", status |-> 200,
                                cause |-> "body"]
             ELSE Refused("SyntaxError", 0, "body")
    /\ reqPhase' = "settled"
    /\ UNCHANGED <<reqFrame, reqFn, reqStatus, reqTimer, reqClock>>

\* the timeout fires: controller.abort(). A pending fetch rejects with an
\* AbortError, which the catch block receives; a pending response.json()
\* rejects with one, which handleResponse swallows when the status is an
\* error and lets through otherwise.
TimeoutFires ==
    /\ reqTimer.armed
    /\ reqClock >= reqTimer.due
    /\ reqTimer' = [reqTimer EXCEPT !.armed = FALSE]
    /\ IF reqPhase = "fetching"
       THEN /\ reqResult' = CatchOf(reqFn, "AbortError", "timeout")
            /\ reqPhase' = "settled"
       ELSE IF reqPhase = "reading"
       THEN /\ reqResult' = IF reqStatus # 200
                            THEN Refused("ApiError", reqStatus, "timeout-body")
                            ELSE Refused("AbortError", 0, "timeout-body")
            /\ reqPhase' = "settled"
       ELSE UNCHANGED <<reqResult, reqPhase>>
    /\ UNCHANGED <<reqFrame, reqFn, reqStatus, reqClock>>

ReqNext ==
    \/ CallRequest
    \/ ReqTick
    \/ FetchResolved
    \/ FetchFailed
    \/ BodyRead
    \/ TimeoutFires

SpecReq == ReqInit /\ [][ReqNext]_vars

\* C25: each of the eight request functions whose response has not arrived
\* when its timeout fires (30 s, 60 s for the registration) is aborted and
\* rejects with an ApiError of status 408.
C25_TimeoutIs408 ==
    (reqPhase = "settled" /\ reqResult.cause = "timeout") =>
        /\ reqFn \in RequestFunctions
        /\ ~reqTimer.armed
        /\ reqClock >= TimeoutOf(reqFn)
        /\ reqResult.settled = "rejected"
        /\ reqResult.error = "ApiError"
        /\ reqResult.status = 408

(***************************************************************************)
(* The payload after the visible pass, under SpecProc.                     *)
(***************************************************************************)
\* C26: after both passes the blue least-significant bits of the reserved
\* region of the final canvas still spell the serialised metadata: the
\* tiled overlay and the corner stamp change no bit of the payload that the
\* invisible pass wrote.
C26_PayloadSurvivesVisiblePass ==
    (pPhase = "settled" /\ pResult.settled = "resolved" /\ IsImageType(pFile.type)
       /\ pOptions.addVisibleWatermark # "false") =>
        LET w      == pResult.drawn.width
            h      == pResult.drawn.height
            rs     == regionSize(w, h)
            binary == textToBinary(JsonStringify(pResult.metadata))
            inv    == applyInvisibleWatermark(pResult.drawn, JsonStringify(pResult.metadata),
                                              w, h).canvas
        IN  \A k \in 0..(Min2(rs * rs, Len(binary)) - 1) :
               /\ RegionByte(inv, rs, k, 2) % 2 = binary[k + 1] - 48
               /\ RegionByte(pResult.canvas, rs, k, 2) % 2 = binary[k + 1] - 48

(***************************************************************************)
(* The registration token and the steps, under Spec.                       *)
(***************************************************************************)
\* C27: in every reachable state of the wizard, when the step is password,
\* vehicle-info, documents or success, a registration token is held (a
\* submission attempted without one goes back to email-name, see Submit).
C27_TokenHeldPastVerification ==
    currentStep \in {"password", "vehicle-info", "documents", "success"}
        => registrationToken

C29_ResetIsFinal ==
    (~isOpen /\ ~resetTimer) =>
        /\ currentStep = "email-name"
        /\ email = <<>>
        /\ otp = <<>>
        /\ ~registrationToken

\* C30: at most one verifyOTP request is in flight at any time: the
\* auto-submit armed when the fifth digit is entered and a manual submit of
\* the form never both start a verification of the code entered.
C30_OneVerificationInFlight ==
    Cardinality({k \in 1..Len(inFlight) : inFlight[k].kind = "verify"}) <= 1

====
